---- MODULE Spec2Model ----
(***************************************************************************)
(* Identity resolution pipeline of FoodSafety-MS-KB:                       *)
(*   step2_L2_master_clean.py     scan, completion, compound list          *)
(*   step5_curate_compounds.py    waterfall fusion of API / LLM candidates *)
(*   step6_backfill_detections.py backfill of detections from the registry *)
(*                                                                         *)
(* A Python str is a sequence of one-character strings; Python None is the *)
(* one-element sequence None, which no str equals.                         *)
(***************************************************************************)
EXTENDS Integers, Sequences, FiniteSets, TLC

VARIABLES
    pc,               \* which script has run
    l1_data,          \* step2: INPUT_FILE contents
    l2_records,       \* step2: FoodSafety_MS_L2_cleaned.json
    final_compounds,  \* step2: compounds.json
    rerun_records,    \* step2 applied to its own l2_records
    compounds,        \* step5: compounds_v2.json
    conflicts,        \* step5: curation_review_conflicts.csv rows
    api_lookup,       \* step5: orphan_candidates_api.csv by original_name
    llm_lookup,       \* step5: orphan_candidates_llm_wb.csv by original_name
    detections,       \* step6: FILE_DETECTIONS_L2 contents
    updated_detections, \* step6: FoodSafety_MS_L2_Final.json
    rerun_detections, \* step6 applied to its own output
    l2_data,          \* step3: INPUT_FILE contents
    master_rows,      \* step3: the rows process_records returns
    raw_tree,         \* step1: a value handed to a normalizer
    cleaned_tree,     \* step1: what the normalizer returns
    recleaned_tree,   \* step1: the normalizer applied to its own output
    stats,            \* step1: self.stats / auditor.stats counters
    orphans,          \* step4a: names of the Orphan compounds
    orphan_i,         \* step4a: index of the orphan being looked up
    attempt,          \* step4a: loop variable of query_pubchem_with_retry
    result,           \* step4a: cid and iupac_name, then the dict the lookup returns
    results,          \* step4a: rows of orphan_candidates_api.csv
    http_log,         \* step4a: requests.get and time.sleep calls made so far
    input_folder,     \* step1: the files of INPUT_FOLDER, in os.listdir order
    file_i,           \* step1: how many of them process_l1_cleaning has taken
    all_records       \* step1: all_records of process_l1_cleaning

vars == <<pc, l1_data, l2_records, final_compounds, rerun_records, compounds,
          conflicts, api_lookup, llm_lookup, detections, updated_detections,
          rerun_detections, l2_data, master_rows, raw_tree, cleaned_tree,
          recleaned_tree, stats, orphans, orphan_i, attempt, result, results, http_log,
          input_folder, file_i, all_records>>

\* the variables of step2, step5 and step6
identityVars == <<l1_data, l2_records, final_compounds, rerun_records, compounds,
                  conflicts, api_lookup, llm_lookup, detections, updated_detections,
                  rerun_detections>>

\* the variables of step4a
apiVars == <<orphans, orphan_i, attempt, result, results, http_log>>

\* the variables of process_l1_cleaning, next to stats
auditVars == <<input_folder, file_i, all_records>>

\* the variables of step3, step1 and step4a
otherVars == <<l2_data, master_rows, raw_tree, cleaned_tree, recleaned_tree, stats,
               orphans, orphan_i, attempt, result, results, http_log,
               input_folder, file_i, all_records>>

\* step3 has not run
L3Idle == l2_data = <<>> /\ master_rows = <<>>

\* no normalizer of step1 has run
L1Idle == raw_tree = <<>> /\ cleaned_tree = <<>> /\ recleaned_tree = <<>> /\ stats = <<>>

\* step4a has not run
ApiIdle ==
    /\ orphans = <<>>
    /\ orphan_i = 0
    /\ attempt = 0
    /\ result = <<>>
    /\ results = <<>>
    /\ http_log = <<>>

\* process_l1_cleaning has not run
AuditIdle == input_folder = <<>> /\ file_i = 0 /\ all_records = <<>>

OtherIdle == L3Idle /\ L1Idle /\ ApiIdle /\ AuditIdle

-----------------------------------------------------------------------------
(* Python values and str methods *)

None == <<"<None>">>

UpperChars == <<"A","B","C","D","E","F","G","H","I","J","K","L","M",
                "N","O","P","Q","R","S","T","U","V","W","X","Y","Z">>
LowerChars == <<"a","b","c","d","e","f","g","h","i","j","k","l","m",
                "n","o","p","q","r","s","t","u","v","w","x","y","z">>

ToLower ==
    [ch \in {UpperChars[i] : i \in DOMAIN UpperChars} |->
        LowerChars[CHOOSE i \in DOMAIN UpperChars : UpperChars[i] = ch]]

LowerChar(ch) == IF ch \in DOMAIN ToLower THEN ToLower[ch] ELSE ch

\* str.lower()
Lower(s) == [i \in DOMAIN s |-> LowerChar(s[i])]

\* str.isspace among the characters used here
IsSpace(ch) == ch \in {" ", "\t", "\n", "\r", "U+00A0"}

RECURSIVE LStrip(_)
LStrip(s) == IF s # <<>> /\ IsSpace(Head(s)) THEN LStrip(Tail(s)) ELSE s

RECURSIVE RStrip(_)
RStrip(s) ==
    IF s # <<>> /\ IsSpace(s[Len(s)]) THEN RStrip(SubSeq(s, 1, Len(s) - 1)) ELSE s

\* str.strip()
Strip(s) == RStrip(LStrip(s))

\* truthiness of a value that is None or a str
Truthy(v) == v # None /\ v # <<>>

\* str(v or "").strip()
StrOrEmpty(v) == Strip(IF Truthy(v) THEN v ELSE <<>>)

S_none == <<"n","o","n","e">>
S_null == <<"n","u","l","l">>
S_nan == <<"n","a","n">>
S_not_found == <<"n","o","t","_","f","o","u","n","d">>
S_None == <<"N","o","n","e">>
S_Document == <<"D","o","c","u","m","e","n","t">>
S_API_PubChem == <<"A","P","I","_","P","u","b","C","h","e","m">>
S_LLM_ == <<"L","L","M","_">>
S_Unknown == <<"U","n","k","n","o","w","n">>
S_Unresolved == <<"U","n","r","e","s","o","l","v","e","d">>
S_Unknown_Compound == <<"U","n","k","n","o","w","n"," ","C","o","m","p","o","u","n","d"," ","(">>
S_Auto_selected_API == <<"A","u","t","o","-","s","e","l","e","c","t","e","d"," ","A","P","I">>

\* str(v), as an f-string formats it
PyStr(v) == IF v = None THEN S_None ELSE v

\* all orders in which a set may be iterated
Orders(S) ==
    {f \in [1..Cardinality(S) -> S] : \A i, j \in 1..Cardinality(S) : i # j => f[i] # f[j]}

-----------------------------------------------------------------------------
(* step2_L2_master_clean.py *)

\* has_cas / has_name: non-empty after strip and not a textual null
HasValue(s) == s # <<>> /\ Lower(s) \notin {S_none, S_null}

EmptyGraph ==
    [cas_to_names |-> <<>>, cas_keys |-> <<>>, name_to_cas |-> <<>>,
     cas_only_set |-> {}, name_only_set |-> {}]

\* defaultdict(set)[k].add(v)
AddTo(d, k, v) ==
    IF k \in DOMAIN d
    THEN [d EXCEPT ![k] = @ \cup {v}]
    ELSE [x \in DOMAIN d \cup {k} |-> IF x = k THEN {v} ELSE d[x]]

\* one iteration of the scanning loop
ScanRecord(g, rec) ==
    LET cas == StrOrEmpty(rec.CAS_number)
        name == StrOrEmpty(rec.compound_english_name)
        has_cas == HasValue(cas)
        has_name == HasValue(name)
    IN  IF has_cas /\ has_name
        THEN [g EXCEPT !.cas_to_names = AddTo(@, cas, name),
                       !.cas_keys = IF cas \in DOMAIN g.cas_to_names THEN @ ELSE Append(@, cas),
                       !.name_to_cas = AddTo(@, Lower(name), cas)]
        ELSE IF has_cas /\ ~has_name
        THEN [g EXCEPT !.cas_only_set = @ \cup {cas}]
        ELSE IF has_name /\ ~has_cas
        THEN [g EXCEPT !.name_only_set = @ \cup {name}]
        ELSE g

RECURSIVE ScanFrom(_, _, _)
ScanFrom(data, i, g) ==
    IF i > Len(data) THEN g ELSE ScanFrom(data, i + 1, ScanRecord(g, data[i]))

\* Step 1: Scanning & Learning
Scan(data) == ScanFrom(data, 1, EmptyGraph)

\* the names min(names_set, key=len) can return: which of several shortest
\* names comes first depends on the iteration order of the set
ShortestNames(names_set) ==
    {n \in names_set : \A m \in names_set : Len(n) <= Len(m)}

\* one result of min(cas_to_names[cas], key=len) per CAS, fixed for a run
MinChoices(g) ==
    {f \in [DOMAIN g.cas_to_names -> UNION {g.cas_to_names[c] : c \in DOMAIN g.cas_to_names}] :
        \A c \in DOMAIN g.cas_to_names : f[c] \in ShortestNames(g.cas_to_names[c])}

\* CasUnset with 'null' left out of the list
CasUnset_NoneOnly(cas) == cas = <<>> \/ Lower(cas) = S_none

\* not cas or cas.lower() in ['none', 'null']
CasUnset(cas) == cas = <<>> \/ Lower(cas) \in {S_none, S_null}

\* NameUnset without the test: every name is replaced by the preferred one
NameUnset_Always(name) == TRUE

\* not name or name.lower() in ['none', 'null']
NameUnset(name) == name = <<>> \/ Lower(name) \in {S_none, S_null}

\* OneCas with >= 1 for == 1
OneCas_AtLeast(g, name) ==
    /\ Lower(name) \in DOMAIN g.name_to_cas
    /\ Cardinality(g.name_to_cas[Lower(name)]) >= 1

\* name.lower() in name_to_cas and len(name_to_cas[name.lower()]) == 1
OneCas(g, name) ==
    /\ Lower(name) \in DOMAIN g.name_to_cas
    /\ Cardinality(g.name_to_cas[Lower(name)]) = 1

\* one iteration of the patching loop
PatchRecord(g, pref, rec) ==
    LET cas == StrOrEmpty(rec.CAS_number)
        name == StrOrEmpty(rec.compound_english_name)
        fill_cas == CasUnset(cas) /\ OneCas(g, name)
        fill_name == NameUnset(name) /\ cas \in DOMAIN g.cas_to_names
        r1 == IF fill_cas
              THEN [rec EXCEPT !.CAS_number = CHOOSE c \in g.name_to_cas[Lower(name)] : TRUE]
              ELSE rec
    IN  IF fill_name THEN [r1 EXCEPT !.compound_english_name = pref[cas]] ELSE r1

\* Step 2: Completion (Patching L1 Data)
Patch(data, g, pref) == [i \in DOMAIN data |-> PatchRecord(g, pref, data[i])]

\* dict item assignment d[k] = v
DictSet(d, k, v) == [x \in DOMAIN d \cup {k} |-> IF x = k THEN v ELSE d[x]]

\* dict.get(k, default)
DictGet(d, k, default) == IF k \in DOMAIN d THEN d[k] ELSE default

\* 3.1 Gold Standard (Verified), in the insertion order of cas_to_names
VerifiedCompounds(g, pref) ==
    [i \in DOMAIN g.cas_keys |->
        LET cas == g.cas_keys[i]
            names_set == g.cas_to_names[cas]
            preferred_name == pref[cas]
        IN  [cas_number |-> cas,
             preferred_name |-> preferred_name,
             synonyms |-> names_set \ {preferred_name},
             status |-> "Verified"]]

\* 3.2 CAS-Only (Recycled as Verified), cas_order an iteration order of cas_only_set
RECURSIVE CasOnlyCompounds(_, _, _)
CasOnlyCompounds(cas_order, i, processed_cas) ==
    IF i > Len(cas_order) THEN <<>>
    ELSE LET cas == cas_order[i]
         IN  IF cas \notin processed_cas
             THEN <<[cas_number |-> cas,
                     preferred_name |-> S_Unknown_Compound \o cas \o <<")">>,
                     synonyms |-> {},
                     status |-> "Verified"]>>
                  \o CasOnlyCompounds(cas_order, i + 1, processed_cas \cup {cas})
             ELSE CasOnlyCompounds(cas_order, i + 1, processed_cas)

\* OrphanKey without the lower-casing
OrphanKey_CaseKept(name) == name

\* name.lower(), by which an orphan is looked up and remembered
OrphanKey(name) == Lower(name)

\* 3.3 Orphan (True Name-Only), name_order an iteration order of name_only_set
RECURSIVE OrphanCompounds(_, _, _, _)
OrphanCompounds(name_order, i, verified_names_lower, unique_orphan_names) ==
    IF i > Len(name_order) THEN <<>>
    ELSE LET name == name_order[i]
         IN  IF OrphanKey(name) \in verified_names_lower
             THEN OrphanCompounds(name_order, i + 1, verified_names_lower, unique_orphan_names)
             ELSE IF OrphanKey(name) \notin unique_orphan_names
             THEN <<[cas_number |-> None,
                     preferred_name |-> name,
                     synonyms |-> {},
                     status |-> "Orphan"]>>
                  \o OrphanCompounds(name_order, i + 1, verified_names_lower,
                                     unique_orphan_names \cup {OrphanKey(name)})
             ELSE OrphanCompounds(name_order, i + 1, verified_names_lower, unique_orphan_names)

\* verified_names_lower with the preferred names only: line 91 left out of the
\* loop over names_set
VerifiedNamesLower_ShortestOnly(g) ==
    {Lower(n) : n \in UNION {ShortestNames(g.cas_to_names[c]) : c \in DOMAIN g.cas_to_names}}

\* for n in names_set: verified_names_lower.add(n.lower()), over all of cas_to_names
VerifiedNamesLower(g) ==
    {Lower(n) : n \in UNION {g.cas_to_names[c] : c \in DOMAIN g.cas_to_names}}

\* Step 3: Generating Compounds List
GenCompounds(g, pref, cas_order, name_order) ==
    LET processed_cas == DOMAIN g.cas_to_names
        verified_names_lower == VerifiedNamesLower(g)
    IN  VerifiedCompounds(g, pref)
        \o CasOnlyCompounds(cas_order, 1, processed_cas)
        \o OrphanCompounds(name_order, 1, verified_names_lower, {})

-----------------------------------------------------------------------------
(* step5_curate_compounds.py *)

\* clean_cas(val)
clean_cas(val) ==
    IF val = None \/ val = <<>> \/ Lower(PyStr(val)) \in {S_none, S_nan, S_not_found}
    THEN None
    ELSE Strip(PyStr(val))

\* a key the dict does not hold
Absent == <<"<absent>">>

\* WaterfallCas with the two priorities swapped
WaterfallCas_LlmFirst(cas_api, cas_llm) ==
    IF Truthy(cas_llm) THEN cas_llm
    ELSE IF Truthy(cas_api) THEN cas_api
    ELSE None

\* Waterfall: the CAS that wins, None when no source has one
WaterfallCas(cas_api, cas_llm) ==
    IF Truthy(cas_api) THEN cas_api
    ELSE IF Truthy(cas_llm) THEN cas_llm
    ELSE None

\* SourceTag with the confidence dropped from the LLM tag
SourceTag_NoConfidence(cas_api, cas_llm, llm_data) ==
    IF Truthy(cas_api) THEN S_API_PubChem
    ELSE IF Truthy(cas_llm) THEN <<"L","L","M">>
    ELSE S_Unresolved

\* Waterfall: the source tag of the winner
SourceTag(cas_api, cas_llm, llm_data) ==
    IF Truthy(cas_api) THEN S_API_PubChem
    ELSE IF Truthy(cas_llm)
    THEN S_LLM_ \o PyStr(DictGet(llm_data, "confidence", S_Unknown))
    ELSE S_Unresolved

\* ConflictRows without the comparison of the two CAS values
ConflictRows_NoCompare(name, cas_api, cas_llm, llm_data) ==
    IF Truthy(cas_api) /\ Truthy(cas_llm)
    THEN <<[name |-> name, cas_api |-> cas_api, cas_llm |-> cas_llm,
            llm_confidence |-> DictGet(llm_data, "confidence", None),
            decision |-> S_Auto_selected_API]>>
    ELSE <<>>

\* the rows the conflict detection appends for one record
ConflictRows(name, cas_api, cas_llm, llm_data) ==
    IF Truthy(cas_api) /\ Truthy(cas_llm) /\ cas_api # cas_llm
    THEN <<[name |-> name, cas_api |-> cas_api, cas_llm |-> cas_llm,
            llm_confidence |-> DictGet(llm_data, "confidence", None),
            decision |-> S_Auto_selected_API]>>
    ELSE <<>>

\* UpdatedStatus without the assignment of 'Curated'
UpdatedStatus_Kept(final_cas, status) == status

\* the status the update of the main record leaves
UpdatedStatus(final_cas, status) == IF Truthy(final_cas) THEN "Curated" ELSE status

\* Provenance with the CAS of the winning source only
Provenance_WinnerOnly(provenance0, cas_api, cas_llm) ==
    [provenance0 EXCEPT !.cas_from_api = cas_api,
                        !.cas_from_llm = IF Truthy(cas_api) THEN None ELSE cas_llm]

\* rec['provenance'] after lines 88-89
Provenance(provenance0, cas_api, cas_llm) ==
    [provenance0 EXCEPT !.cas_from_api = cas_api, !.cas_from_llm = cas_llm]

\* ChemicalProperties with the LLM's properties copied whenever the LLM has a CAS
ChemicalProperties_LlmAlways(properties0, cas_api, cas_llm, api_data, llm_data) ==
    LET with_api == IF Truthy(cas_api)
                    THEN [properties0 EXCEPT
                            !.pubchem_cid = DictGet(api_data, "pubchem_cid", None),
                            !.suggested_iupac = DictGet(api_data, "suggested_name", None)]
                    ELSE properties0
    IN  IF Truthy(cas_llm)
        THEN [with_api EXCEPT
                !.molecular_formula = DictGet(llm_data, "molecular_formula", None),
                !.molecular_weight = DictGet(llm_data, "molecular_weight", None),
                !.smiles = DictGet(llm_data, "smiles", None)]
        ELSE with_api

\* rec['chemical_properties'] after the waterfall of lines 96-111
ChemicalProperties(properties0, cas_api, cas_llm, api_data, llm_data) ==
    IF Truthy(cas_api)
    THEN [properties0 EXCEPT
            !.pubchem_cid = DictGet(api_data, "pubchem_cid", None),
            !.suggested_iupac = DictGet(api_data, "suggested_name", None)]
    ELSE IF Truthy(cas_llm)
    THEN [properties0 EXCEPT
            !.molecular_formula = DictGet(llm_data, "molecular_formula", None),
            !.molecular_weight = DictGet(llm_data, "molecular_weight", None),
            !.smiles = DictGet(llm_data, "smiles", None)]
    ELSE properties0

\* the body of the fusion loop for one record: the record as left in compounds,
\* and the rows appended to conflicts
CurateRecord(rec, api_tab, llm_tab) ==
    LET name == rec.preferred_name
        original_cas == clean_cas(rec.cas_number)
        status == rec.status
        provenance0 == [cas_from_doc |-> original_cas, cas_from_api |-> None,
                        cas_from_llm |-> None]
        properties0 == [molecular_formula |-> None, molecular_weight |-> None,
                        smiles |-> None, pubchem_cid |-> None, suggested_iupac |-> Absent]
        api_data == DictGet(api_tab, name, <<>>)
        llm_data == DictGet(llm_tab, name, <<>>)
        cas_api == clean_cas(DictGet(api_data, "suggested_cas", None))
        cas_llm == clean_cas(DictGet(llm_data, "suggested_cas", None))
        provenance == Provenance(provenance0, cas_api, cas_llm)
        final_cas == WaterfallCas(cas_api, cas_llm)
        source_tag == SourceTag(cas_api, cas_llm, llm_data)
        properties == ChemicalProperties(properties0, cas_api, cas_llm, api_data, llm_data)
        new_conflicts == ConflictRows(name, cas_api, cas_llm, llm_data)
    IN  IF status = "Verified" /\ Truthy(original_cas)
        THEN [rec |-> [cas_number |-> rec.cas_number,
                       preferred_name |-> rec.preferred_name,
                       synonyms |-> rec.synonyms,
                       status |-> rec.status,
                       provenance |-> provenance0,
                       chemical_properties |-> properties0,
                       cas_source |-> S_Document],
              conflicts |-> <<>>]
        ELSE IF Truthy(final_cas)
        THEN [rec |-> [cas_number |-> final_cas,
                       preferred_name |-> rec.preferred_name,
                       synonyms |-> rec.synonyms,
                       status |-> UpdatedStatus(final_cas, rec.status),
                       provenance |-> provenance,
                       chemical_properties |-> properties,
                       cas_source |-> source_tag],
              conflicts |-> new_conflicts]
        ELSE [rec |-> [cas_number |-> rec.cas_number,
                       preferred_name |-> rec.preferred_name,
                       synonyms |-> rec.synonyms,
                       status |-> rec.status,
                       provenance |-> provenance,
                       chemical_properties |-> properties,
                       cas_source |-> S_None],
              conflicts |-> new_conflicts]

\* the fusion loop: compounds after it
CurateAll(comps, api_tab, llm_tab) ==
    [i \in DOMAIN comps |-> CurateRecord(comps[i], api_tab, llm_tab).rec]

\* the fusion loop: conflicts after it
RECURSIVE CurateConflicts(_, _, _, _)
CurateConflicts(comps, i, api_tab, llm_tab) ==
    IF i > Len(comps) THEN <<>>
    ELSE CurateRecord(comps[i], api_tab, llm_tab).conflicts
         \o CurateConflicts(comps, i + 1, api_tab, llm_tab)

-----------------------------------------------------------------------------
(* step6_backfill_detections.py *)

\* one iteration of the lookup-building loop
IndexCompound(m, c) ==
    LET cas == c.cas_number
        name == c.preferred_name
        m1 == IF Truthy(name) /\ Truthy(cas)
              THEN [m EXCEPT !.name_to_cas_map = DictSet(@, Lower(Strip(name)), cas)]
              ELSE m
    IN  IF Truthy(cas) /\ Truthy(name)
        THEN [m1 EXCEPT !.cas_to_name_map = DictSet(@, Strip(cas), name)]
        ELSE m1

RECURSIVE BuildLookupFrom(_, _, _)
BuildLookupFrom(comps, i, m) ==
    IF i > Len(comps) THEN m ELSE BuildLookupFrom(comps, i + 1, IndexCompound(m, comps[i]))

\* 2. Lookup Map
BuildLookup(comps) ==
    BuildLookupFrom(comps, 1, [name_to_cas_map |-> <<>>, cas_to_name_map |-> <<>>])

\* CasUnsetV2 without the test: a CAS the registry resolves replaces the record's
CasUnsetV2_Always(current_cas) == TRUE

\* not current_cas or current_cas.lower() == 'none'
CasUnsetV2(current_cas) == current_cas = <<>> \/ Lower(current_cas) = S_none

\* NameUnsetV2 without the test: every name is replaced by the preferred one
NameUnsetV2_Always(current_name) == TRUE

\* not current_name or current_name.lower() == 'none'
NameUnsetV2(current_name) == current_name = <<>> \/ Lower(current_name) = S_none

\* BackfillRecord with the output record built from the two identity fields in
\* place of rec.copy()
BackfillRecord_IdentityOnly(m, rec) ==
    [CAS_number |-> rec.CAS_number, compound_english_name |-> rec.compound_english_name]

\* one iteration of the back-filling loop
BackfillRecord(m, rec) ==
    LET current_cas == StrOrEmpty(rec.CAS_number)
        current_name == StrOrEmpty(rec.compound_english_name)
        target_cas == DictGet(m.name_to_cas_map, Lower(current_name), None)
        target_name == DictGet(m.cas_to_name_map, current_cas, None)
        r1 == IF /\ CasUnsetV2(current_cas)
                 /\ current_name # <<>>
                 /\ Truthy(target_cas)
              THEN [rec EXCEPT !.CAS_number = target_cas]
              ELSE rec
    IN  IF /\ NameUnsetV2(current_name)
           /\ current_cas # <<>>
           /\ Truthy(target_name)
        THEN [r1 EXCEPT !.compound_english_name = target_name]
        ELSE r1

\* 4. Back-filling
Backfill(comps, dets) ==
    LET m == BuildLookup(comps)
    IN  [i \in DOMAIN dets |-> BackfillRecord(m, dets[i])]

-----------------------------------------------------------------------------
(* Bounded inputs *)

\* records in an input corpus
MaxRecs == 3

Cas1 == <<"1">>
Cas2 == <<"2">>
Cas6 == <<"6">>
NameAb == <<"A","b">>
NameAB == <<"a","B">>

\* the ways an input record writes a missing CAS_number: null, empty, textual
MissingForms == {None, <<>>, S_None, <<"N","U","L","L">>}

\* CAS_number of an input record of a corpus that writes a missing CAS as form
CasIn(form) == {form, Cas1, <<" ","2">>}

\* compound_english_name of an input record: two spellings of one name that
\* differ in case only, and a shorter name
NameIn == {None, NameAb, NameAB, <<"1"," ">>}

\* CAS_number of a record of the corpus the registry is built from
CasInSmall == {None, Cas1, Cas2, S_nan}

\* CAS_number and compound_english_name of a record of the corpus whose
\* detections are backfilled
CasInV2 == {None, S_None, Cas1, Cas2}
NameInV2 == {None, NameAb, NameAB}

DetectionRecords(C, N) == [CAS_number : C, compound_english_name : N]

\* the fields of an L1 record step2 and step6 never read: the parameters of the
\* method and the file step1 took the record from, here one file per record
L1Record(rec, i) ==
    [CAS_number |-> rec.CAS_number,
     compound_english_name |-> rec.compound_english_name,
     mass_spec_params |-> <<"Q", ToString(i)>>,
     _source_file |-> ToString(i)]

Corpora(C, N) ==
    {[i \in 1..MaxRecs |-> L1Record(d[i], i)] : d \in [1..MaxRecs -> DetectionRecords(C, N)]}

\* rows of orphan_candidates_api.csv, as step4a writes them
ApiRows ==
    {[suggested_cas |-> None, suggested_name |-> None, pubchem_cid |-> None],
     [suggested_cas |-> None, suggested_name |-> None, pubchem_cid |-> <<"7">>],
     [suggested_cas |-> Cas1, suggested_name |-> <<"i">>, pubchem_cid |-> <<"7">>]}

\* rows of orphan_candidates_llm_wb.csv
LlmRows ==
    {[suggested_cas |-> Cas1, confidence |-> <<"H","i","g","h">>,
      molecular_formula |-> <<"F">>, molecular_weight |-> <<"9">>, smiles |-> <<"S">>],
     [suggested_cas |-> <<"6"," ">>, confidence |-> <<"L","o","w">>,
      molecular_formula |-> <<"G">>, molecular_weight |-> <<"8">>, smiles |-> <<"T">>],
     [suggested_cas |-> Cas6, confidence |-> None,
      molecular_formula |-> None, molecular_weight |-> None, smiles |-> None],
     [suggested_cas |-> <<"N","O","T","_","F","O","U","N","D">>, confidence |-> <<"L","o","w">>,
      molecular_formula |-> None, molecular_weight |-> None, smiles |-> None]}

\* rows with a usable CAS, one per source
ApiRowsV2 == {r \in ApiRows : r.suggested_cas # None}
LlmRowsV2 == {r \in LlmRows : r.suggested_cas = Cas6}

\* the candidate tables over the preferred names of comps: a table is keyed by
\* original_name, and rows of other names are never looked up; full_rows are the
\* rows an Orphan's name may have, verified_rows those of any other name
Tables(comps, full_rows, verified_rows) ==
    LET names == {comps[i].preferred_name : i \in DOMAIN comps}
        orphan_names == {comps[i].preferred_name : i \in {j \in DOMAIN comps : comps[j].status = "Orphan"}}
    IN  UNION {{t \in [D -> full_rows] :
                    \A n \in D : n \in orphan_names \/ t[n] \in verified_rows} :
               D \in SUBSET names}

-----------------------------------------------------------------------------
(* step2 as a state machine: the script, then the script on its own output *)

InitL2 ==
    /\ pc = "l1"
    /\ OtherIdle
    /\ \E form \in MissingForms : \E data \in Corpora(CasIn(form), NameIn) :
        /\ l1_data = data
        /\ l2_records = <<>>
        /\ final_compounds = <<>>
        /\ rerun_records = <<>>
        /\ compounds = <<>>
        /\ conflicts = <<>>
        /\ api_lookup = <<>>
        /\ llm_lookup = <<>>
        /\ detections = <<>>
        /\ updated_detections = <<>>
        /\ rerun_detections = <<>>

build_compounds_and_complete_data ==
    /\ pc = "l1"
    /\ \E g \in {Scan(l1_data)} :
        \E pref \in MinChoices(g), cas_order \in Orders(g.cas_only_set),
           name_order \in Orders(g.name_only_set) :
            /\ l2_records' = Patch(l1_data, g, pref)
            /\ final_compounds' = GenCompounds(g, pref, cas_order, name_order)
    /\ pc' = "l2"
    /\ UNCHANGED <<l1_data, rerun_records, compounds, conflicts, api_lookup, llm_lookup,
                   detections, updated_detections, rerun_detections>>
    /\ UNCHANGED otherVars

\* the script run again with its L2 output as INPUT_FILE
rerun_build_compounds_and_complete_data ==
    /\ pc = "l2"
    /\ \E g \in {Scan(l2_records)} :
        \E pref \in MinChoices(g), cas_order \in Orders(g.cas_only_set),
           name_order \in Orders(g.name_only_set) :
            /\ rerun_records' = Patch(l2_records, g, pref)
            /\ final_compounds' = GenCompounds(g, pref, cas_order, name_order)
    /\ pc' = "l2_rerun"
    /\ UNCHANGED <<l1_data, l2_records, compounds, conflicts, api_lookup, llm_lookup,
                   detections, updated_detections, rerun_detections>>
    /\ UNCHANGED otherVars

NextL2 == build_compounds_and_complete_data \/ rerun_build_compounds_and_complete_data

SpecL2 == InitL2 /\ [][NextL2]_vars

-----------------------------------------------------------------------------
(* step2, the candidate sources and step5 as a state machine; of step2 the
   machine keeps compounds.json *)

\* no file of the identity pipeline is written yet
NoFiles ==
    /\ l1_data = <<>>
    /\ l2_records = <<>>
    /\ final_compounds = <<>>
    /\ rerun_records = <<>>
    /\ compounds = <<>>
    /\ conflicts = <<>>
    /\ api_lookup = <<>>
    /\ llm_lookup = <<>>
    /\ detections = <<>>
    /\ updated_detections = <<>>
    /\ rerun_detections = <<>>

\* no script has run; INPUT_FILE is read by the step2 action
InitFiles == pc = "l1" /\ NoFiles /\ OtherIdle

\* build_compounds_and_complete_data on some corpus, writing OUTPUT_COMPOUNDS
write_compounds ==
    /\ pc = "l1"
    /\ \E data \in Corpora(CasInSmall, NameIn) :
        \E g \in {Scan(data)} :
        \E pref \in MinChoices(g), cas_order \in Orders(g.cas_only_set),
           name_order \in Orders(g.name_only_set) :
            final_compounds' = GenCompounds(g, pref, cas_order, name_order)
    /\ pc' = "compounds"
    /\ UNCHANGED <<l1_data, l2_records, rerun_records, compounds, conflicts, api_lookup,
                   llm_lookup, detections, updated_detections, rerun_detections>>
    /\ UNCHANGED otherVars

\* the two candidate tables are written for the names of compounds.json
write_candidates ==
    /\ pc = "compounds"
    /\ api_lookup' \in Tables(final_compounds, ApiRows, ApiRowsV2)
    /\ llm_lookup' \in Tables(final_compounds, LlmRows, LlmRowsV2)
    /\ pc' = "candidates"
    /\ UNCHANGED <<l1_data, l2_records, final_compounds, rerun_records, compounds,
                   conflicts, detections, updated_detections, rerun_detections>>
    /\ UNCHANGED otherVars

curate_compounds ==
    /\ pc = "candidates"
    /\ compounds' = CurateAll(final_compounds, api_lookup, llm_lookup)
    /\ conflicts' = CurateConflicts(final_compounds, 1, api_lookup, llm_lookup)
    /\ pc' = "curated"
    /\ UNCHANGED <<l1_data, l2_records, final_compounds, rerun_records, api_lookup,
                   llm_lookup, detections, updated_detections, rerun_detections>>
    /\ UNCHANGED otherVars

NextCurate == write_compounds \/ write_candidates \/ curate_compounds

SpecCurate == InitFiles /\ [][NextCurate]_vars

-----------------------------------------------------------------------------
(* step2, the candidate sources, step5 and step6 as a state machine; of step2
   the machine keeps compounds.json and the L2 detections, which step6 reads *)

\* build_compounds_and_complete_data on some corpus, writing OUTPUT_COMPOUNDS
\* and OUTPUT_DETECTIONS_L2
write_l2_files ==
    /\ pc = "l1"
    /\ \E data \in Corpora(CasInV2, NameInV2) :
        \E g \in {Scan(data)} :
        \E pref \in MinChoices(g), cas_order \in Orders(g.cas_only_set),
           name_order \in Orders(g.name_only_set) :
            /\ l1_data' = data
            /\ detections' = Patch(data, g, pref)
            /\ final_compounds' = GenCompounds(g, pref, cas_order, name_order)
    /\ pc' = "compounds"
    /\ UNCHANGED <<l2_records, rerun_records, compounds, conflicts, api_lookup,
                   llm_lookup, updated_detections, rerun_detections>>
    /\ UNCHANGED otherVars

\* the two candidate tables are written for the orphans of compounds.json, each
\* row with a usable CAS
write_candidates_v2 ==
    /\ pc = "compounds"
    /\ api_lookup' \in Tables(final_compounds, ApiRowsV2, {})
    /\ llm_lookup' \in Tables(final_compounds, LlmRowsV2, {})
    /\ pc' = "candidates"
    /\ UNCHANGED <<l1_data, l2_records, final_compounds, rerun_records, compounds,
                   conflicts, detections, updated_detections, rerun_detections>>
    /\ UNCHANGED otherVars

backfill_detections ==
    /\ pc = "curated"
    /\ updated_detections' = Backfill(compounds, detections)
    /\ pc' = "final"
    /\ UNCHANGED <<l1_data, l2_records, final_compounds, rerun_records, compounds,
                   conflicts, api_lookup, llm_lookup, detections, rerun_detections>>
    /\ UNCHANGED otherVars

\* the script run again with its output as FILE_DETECTIONS_L2
rerun_backfill_detections ==
    /\ pc = "final"
    /\ rerun_detections' = Backfill(compounds, updated_detections)
    /\ pc' = "final_rerun"
    /\ UNCHANGED <<l1_data, l2_records, final_compounds, rerun_records, compounds,
                   conflicts, api_lookup, llm_lookup, detections, updated_detections>>
    /\ UNCHANGED otherVars

NextBackfill ==
    \/ write_l2_files
    \/ write_candidates_v2
    \/ curate_compounds
    \/ backfill_detections
    \/ rerun_backfill_detections

SpecBackfill == InitFiles /\ [][NextBackfill]_vars

-----------------------------------------------------------------------------
(* Properties of CompletionEngine (step2), checked under SpecL2 *)

\* a field of a detection record holds a value: not null, not blank, not a textual null
Present(v) == HasValue(StrOrEmpty(v))

\* the CAS numbers the both-present records of data give the name, compared
\* without case
CasOfName(data, name) ==
    {StrOrEmpty(data[j].CAS_number) :
        j \in {k \in DOMAIN data :
                /\ Present(data[k].CAS_number)
                /\ Present(data[k].compound_english_name)
                /\ Lower(StrOrEmpty(data[k].compound_english_name)) = Lower(StrOrEmpty(name))}}

\* record i of data has a name and no CAS
NameOnly(data, i) ==
    Present(data[i].compound_english_name) /\ ~Present(data[i].CAS_number)

\* C3: after completion, a record with a name and no CAS whose name the corpus
\* links to two or more distinct CAS numbers still has the CAS_number it came with
C3_AmbiguousStaysUnresolved ==
    pc # "l1" =>
        \A i \in DOMAIN l1_data :
            (NameOnly(l1_data, i)
             /\ Cardinality(CasOfName(l1_data, l1_data[i].compound_english_name)) >= 2)
            => /\ l2_records[i].CAS_number = l1_data[i].CAS_number
               /\ ~Present(l2_records[i].CAS_number)

\* Scenario B has run: a name linked to two CAS numbers, and a third record
\* bearing it without CAS
C3_Witness ==
    /\ pc = "l2"
    /\ \E i \in DOMAIN l1_data :
        /\ NameOnly(l1_data, i)
        /\ Cardinality(CasOfName(l1_data, l1_data[i].compound_english_name)) = 2
        /\ ~Present(l2_records[i].CAS_number)

\* C4: after completion, a record with a name and no CAS (null, empty or a
\* textual null) whose name the corpus links to exactly one CAS c has CAS_number c
C4_UniqueCasFilled ==
    pc # "l1" =>
        \A i \in DOMAIN l1_data :
            NameOnly(l1_data, i) =>
                \A cs \in {CasOfName(l1_data, l1_data[i].compound_english_name)} :
                    \A c \in cs : cs = {c} => l2_records[i].CAS_number = c

\* Scenario A has run, with the name-only record first and its name spelled in
\* another case than the record that carries the CAS
C4_Witness ==
    /\ pc = "l2"
    /\ NameOnly(l1_data, 1)
    /\ \E j \in DOMAIN l1_data :
        /\ Present(l1_data[j].CAS_number)
        /\ Present(l1_data[j].compound_english_name)
        /\ l1_data[j].compound_english_name # l1_data[1].compound_english_name
        /\ CasOfName(l1_data, l1_data[1].compound_english_name)
                = {StrOrEmpty(l1_data[j].CAS_number)}
        /\ l2_records[1].CAS_number = StrOrEmpty(l1_data[j].CAS_number)

\* C5: the step2 scan-and-patch run on its own output record list returns that
\* record list
C5_CompletionIdempotent ==
    pc = "l2_rerun" => rerun_records = l2_records

\* the second run has ended on a list the first run had filled a CAS and a name in
C5_Witness ==
    /\ pc = "l2_rerun"
    /\ \E i, j \in DOMAIN l1_data :
        /\ l2_records[i].CAS_number # l1_data[i].CAS_number
        /\ l2_records[j].compound_english_name # l1_data[j].compound_english_name
    /\ rerun_records = l2_records

-----------------------------------------------------------------------------
(* Properties of EnrichmentFusion (step5), checked under SpecCurate *)

\* a candidate CAS a source proposes is usable: not null, not blank, not one of
\* the textual markers of a failed lookup
Usable(v) ==
    /\ v # None
    /\ Strip(v) # <<>>
    /\ Lower(Strip(v)) \notin {S_none, S_nan, S_not_found}

\* what the candidate table holds for the name: its row's suggested_cas, None
\* when the table has no row
Proposed(tab, name) == IF name \in DOMAIN tab THEN tab[name].suggested_cas ELSE None

\* the records of the registry that are Orphans before the fusion
Orphans == {i \in DOMAIN final_compounds : final_compounds[i].status = "Orphan"}

StatusMatchesCas(rec) ==
    /\ rec.status \in {"Verified", "Curated", "Orphan"}
    /\ rec.status \in {"Verified", "Curated"} <=> rec.cas_number # None
    /\ rec.status = "Orphan" <=> rec.cas_number = None

\* C1: in compounds.json as step2 writes it and in compounds_v2.json as step5
\* writes it, a record's status is Verified or Curated exactly when its
\* cas_number is not null, and Orphan exactly when it is null
C1_StatusIffCas ==
    /\ \A i \in DOMAIN final_compounds : StatusMatchesCas(final_compounds[i])
    /\ \A i \in DOMAIN compounds : StatusMatchesCas(compounds[i])

\* a fused registry that holds a Verified, a Curated and an Orphan record
C1_Witness ==
    /\ pc = "curated"
    /\ \E i, j, k \in DOMAIN compounds :
        /\ compounds[i].status = "Verified" /\ compounds[i].cas_number # None
        /\ compounds[j].status = "Curated" /\ final_compounds[j].status = "Orphan"
        /\ compounds[k].status = "Orphan" /\ compounds[k].cas_number = None

\* C8: an orphan whose API candidate has a usable CAS ends with that CAS as
\* cas_number, status Curated and cas_source API_PubChem, whatever the LLM proposes
C8_ApiWins ==
    pc = "curated" =>
        \A i \in Orphans :
            LET api == Proposed(api_lookup, final_compounds[i].preferred_name)
            IN  Usable(api) =>
                    /\ compounds[i].cas_number = Strip(api)
                    /\ compounds[i].status = "Curated"
                    /\ compounds[i].cas_source = S_API_PubChem

\* Scenario C has run: both sources propose a usable CAS, the two differ, and the
\* orphan has the API's
C8_Witness ==
    /\ pc = "curated"
    /\ \E i \in Orphans :
        LET api == Proposed(api_lookup, final_compounds[i].preferred_name)
            llm == Proposed(llm_lookup, final_compounds[i].preferred_name)
        IN  /\ Usable(api) /\ Usable(llm) /\ Strip(api) # Strip(llm)
            /\ compounds[i].cas_number = Strip(api)

\* the conflicts logged under the name
ConflictsOf(name) == {k \in DOMAIN conflicts : conflicts[k].name = name}

\* C9: the fusion logs one conflict for an orphan when both sources propose
\* usable CAS values that differ, and none otherwise; the conflict carries both
\* values, the LLM confidence and the winner, and the orphan has the waterfall's
\* result: the API's CAS, Curated, API_PubChem
C9_ConflictIffDisagree ==
    pc = "curated" =>
        \A i \in Orphans :
            LET name == final_compounds[i].preferred_name
                api == Proposed(api_lookup, name)
                llm == Proposed(llm_lookup, name)
                disagree == Usable(api) /\ Usable(llm) /\ Strip(api) # Strip(llm)
            IN  /\ Cardinality(ConflictsOf(name)) = IF disagree THEN 1 ELSE 0
                /\ \A k \in ConflictsOf(name) :
                    /\ conflicts[k].cas_api = Strip(api)
                    /\ conflicts[k].cas_llm = Strip(llm)
                    /\ conflicts[k].llm_confidence = llm_lookup[name].confidence
                    /\ conflicts[k].decision = S_Auto_selected_API
                    /\ compounds[i].cas_number = Strip(api)
                    /\ compounds[i].status = "Curated"
                    /\ compounds[i].cas_source = S_API_PubChem

\* a run that logged a conflict for one orphan and none for another whose two
\* sources agree
C9_Witness ==
    /\ pc = "curated"
    /\ \E i, j \in Orphans :
        /\ ConflictsOf(final_compounds[i].preferred_name) # {}
        /\ ConflictsOf(final_compounds[j].preferred_name) = {}
        /\ Usable(Proposed(api_lookup, final_compounds[j].preferred_name))
        /\ Usable(Proposed(llm_lookup, final_compounds[j].preferred_name))

\* C10: an orphan with no usable API CAS and a usable LLM CAS ends with the LLM's
\* CAS, status Curated and cas_source "LLM_" followed by the row's confidence; an
\* orphan with no usable CAS from either source keeps cas_number null, status
\* Orphan and has cas_source "None"
C10_LlmElseUnresolved ==
    pc = "curated" =>
        \A i \in Orphans :
            LET name == final_compounds[i].preferred_name
                api == Proposed(api_lookup, name)
                llm == Proposed(llm_lookup, name)
            IN  /\ (~Usable(api) /\ Usable(llm)) =>
                    /\ compounds[i].cas_number = Strip(llm)
                    /\ compounds[i].status = "Curated"
                    /\ compounds[i].cas_source = S_LLM_ \o PyStr(llm_lookup[name].confidence)
                /\ (~Usable(api) /\ ~Usable(llm)) =>
                    /\ compounds[i].cas_number = None
                    /\ compounds[i].status = "Orphan"
                    /\ compounds[i].cas_source = S_None

\* a run in which the LLM resolved one orphan, with a confidence label, and
\* another orphan whose LLM row holds a not-found marker stays unresolved
C10_Witness ==
    /\ pc = "curated"
    /\ \E i, j \in Orphans :
        /\ ~Usable(Proposed(api_lookup, final_compounds[i].preferred_name))
        /\ Usable(Proposed(llm_lookup, final_compounds[i].preferred_name))
        /\ llm_lookup[final_compounds[i].preferred_name].confidence # None
        /\ compounds[i].status = "Curated"
        /\ final_compounds[j].preferred_name \in DOMAIN llm_lookup
        /\ ~Usable(Proposed(llm_lookup, final_compounds[j].preferred_name))
        /\ compounds[j].status = "Orphan"

\* C24: every registry record that is not an Orphan before curate_compounds has
\* the same cas_number and status after it, whatever candidates the external
\* sources hold for its name.
C24_NonOrphanUntouched ==
    pc = "curated" =>
        \A i \in DOMAIN final_compounds :
            final_compounds[i].status # "Orphan" =>
                /\ compounds[i].cas_number = final_compounds[i].cas_number
                /\ compounds[i].status = final_compounds[i].status

\* C24 for the Verified records whose cas_number clean_cas keeps
UsableVerifiedUntouched ==
    pc = "curated" =>
        \A i \in DOMAIN final_compounds :
            (final_compounds[i].status = "Verified" /\ Usable(final_compounds[i].cas_number)) =>
                /\ compounds[i].cas_number = final_compounds[i].cas_number
                /\ compounds[i].status = final_compounds[i].status

\* the properties of a record that come from the structured source
ApiProperties(p) == <<p.pubchem_cid, p.suggested_iupac>>

\* the properties of a record that come from the secondary source
LlmProperties(p) == <<p.molecular_formula, p.molecular_weight, p.smiles>>

\* C25: chemical_properties of an orphan come only from the winning source:
\* when the structured source wins, no molecular_formula, molecular_weight or
\* smiles of the secondary candidate is copied; when the secondary source wins,
\* no property of the structured source is copied; when neither wins, all
\* chemical properties stay empty.
C25_PropertiesFromWinnerOnly ==
    pc = "curated" =>
        \A i \in Orphans :
            LET name == final_compounds[i].preferred_name
                api == Proposed(api_lookup, name)
                llm == Proposed(llm_lookup, name)
                p == compounds[i].chemical_properties
            IN  /\ Usable(api) =>
                    /\ LlmProperties(p) = <<None, None, None>>
                    /\ ApiProperties(p) = <<api_lookup[name].pubchem_cid,
                                             api_lookup[name].suggested_name>>
                /\ (~Usable(api) /\ Usable(llm)) =>
                    /\ ApiProperties(p) = <<None, Absent>>
                    /\ LlmProperties(p) = <<llm_lookup[name].molecular_formula,
                                             llm_lookup[name].molecular_weight,
                                             llm_lookup[name].smiles>>
                /\ (~Usable(api) /\ ~Usable(llm)) =>
                    /\ ApiProperties(p) = <<None, Absent>>
                    /\ LlmProperties(p) = <<None, None, None>>

\* one orphan resolved by the structured source although the secondary source
\* holds properties for it, and one resolved by the secondary source although
\* the structured source holds an identifier for it
C25_Witness ==
    /\ pc = "curated"
    /\ \E i, j \in Orphans :
        LET ni == final_compounds[i].preferred_name
            nj == final_compounds[j].preferred_name
        IN  /\ Usable(Proposed(api_lookup, ni))
            /\ Usable(Proposed(llm_lookup, ni))
            /\ llm_lookup[ni].smiles # None
            /\ compounds[i].chemical_properties.smiles = None
            /\ nj \in DOMAIN api_lookup
            /\ ~Usable(Proposed(api_lookup, nj))
            /\ api_lookup[nj].pubchem_cid # None
            /\ Usable(Proposed(llm_lookup, nj))
            /\ compounds[j].chemical_properties.pubchem_cid = None
            /\ compounds[j].chemical_properties.smiles = llm_lookup[nj].smiles

\* the CAS a source proposes, cleaned: trimmed, null for a missing value or a
\* marker of a failed lookup
Cleaned(v) == IF Usable(v) THEN Strip(v) ELSE None

\* C26: for every orphan, provenance.cas_from_api and provenance.cas_from_llm
\* are the cleaned CAS proposed by the structured and the secondary source, the
\* losing source's value included, and provenance.cas_from_doc keeps the
\* document CAS; the final cas_number overwrites none of them.
C26_ProvenanceKeepsAllSources ==
    pc = "curated" =>
        \A i \in Orphans :
            LET name == final_compounds[i].preferred_name
            IN  /\ compounds[i].provenance.cas_from_api = Cleaned(Proposed(api_lookup, name))
                /\ compounds[i].provenance.cas_from_llm = Cleaned(Proposed(llm_lookup, name))
                /\ compounds[i].provenance.cas_from_doc = final_compounds[i].cas_number

\* an orphan resolved by the structured source whose provenance still holds the
\* different CAS of the secondary source
C26_Witness ==
    /\ pc = "curated"
    /\ \E i \in Orphans :
        /\ compounds[i].cas_number = compounds[i].provenance.cas_from_api
        /\ compounds[i].provenance.cas_from_llm # None
        /\ compounds[i].provenance.cas_from_llm # compounds[i].cas_number
        /\ compounds[i].provenance.cas_from_doc = None

\* no two records of the registry share a cas_number
UniqueCas(registry) ==
    \A i, j \in DOMAIN registry :
        (i # j /\ registry[i].cas_number # None) =>
            registry[i].cas_number # registry[j].cas_number

\* C28: if no two compound records share a cas_number before curate_compounds,
\* none do after it, also when two orphans are resolved to the same CAS or an
\* orphan is resolved to the CAS of a Verified record.
C28_FusionKeepsCasUnique ==
    pc = "curated" => (UniqueCas(final_compounds) => UniqueCas(compounds))

-----------------------------------------------------------------------------
(* Properties of BackfillPropagator (step6), checked under SpecBackfill *)

\* the CAS numbers the registry's records give the name, compared without case
RegistryCasOfName(name) ==
    {Strip(compounds[k].cas_number) :
        k \in {j \in DOMAIN compounds :
                /\ Truthy(compounds[j].cas_number)
                /\ Lower(Strip(compounds[j].preferred_name)) = Lower(StrOrEmpty(name))}}

\* C2: backfill leaves the CAS_number of a record that has a name and no CAS
\* as it was when the registry gives the name more than one CAS, and a CAS it
\* fills is the only one the registry gives the name
C2_BackfillNeverGuesses ==
    pc \in {"final", "final_rerun"} =>
        \A i \in DOMAIN detections :
            NameOnly(detections, i) =>
                /\ Cardinality(RegistryCasOfName(detections[i].compound_english_name)) > 1
                    => updated_detections[i].CAS_number = detections[i].CAS_number
                /\ updated_detections[i].CAS_number # detections[i].CAS_number
                    => RegistryCasOfName(detections[i].compound_english_name)
                            = {updated_detections[i].CAS_number}

\* C6: backfill applied to its own output, with the registry unchanged, returns
\* that output
C6_BackfillIdempotent ==
    pc = "final_rerun" => rerun_detections = updated_detections

\* the second run has ended on a list the first run had filled a CAS in
C6_Witness ==
    /\ pc = "final_rerun"
    /\ \E i \in DOMAIN detections :
        updated_detections[i].CAS_number # detections[i].CAS_number
    /\ rerun_detections = updated_detections

\* C7: a CAS_number, and a compound_english_name, that a detection record holds
\* before backfill is the one it holds after
C7_PresentValueKept ==
    pc \in {"final", "final_rerun"} =>
        \A i \in DOMAIN detections :
            /\ Present(detections[i].CAS_number)
                => updated_detections[i].CAS_number = detections[i].CAS_number
            /\ Present(detections[i].compound_english_name)
                => updated_detections[i].compound_english_name
                        = detections[i].compound_english_name

\* backfill has run on a record whose name the registry's lookup resolves to
\* another CAS than the record's, and whose CAS the registry names otherwise
C7_Witness ==
    /\ pc = "final"
    /\ \E i \in DOMAIN detections :
        LET m == BuildLookup(compounds)
            cas == StrOrEmpty(detections[i].CAS_number)
            name == StrOrEmpty(detections[i].compound_english_name)
        IN  /\ Present(detections[i].CAS_number)
            /\ Present(detections[i].compound_english_name)
            /\ Lower(name) \in DOMAIN m.name_to_cas_map
            /\ m.name_to_cas_map[Lower(name)] # cas
            /\ cas \in DOMAIN m.cas_to_name_map
            /\ m.cas_to_name_map[cas] # name
            /\ updated_detections[i] = detections[i]

-----------------------------------------------------------------------------
(* step3_L3_master_clean.py *)

\* a JSON number, written with its decimal text
Num(text) == <<"<num>">> \o text
IsNum(v) == v # <<>> /\ v[1] = "<num>"

\* a Python float, written with the text repr() gives it
Float(text) == <<"<float>">> \o text
IsFloat(v) == v # <<>> /\ v[1] = "<float>"

\* a JSON object {value, unit}; a key the object lacks holds Absent
Dict(value, unit) == <<"<dict>", value, unit>>
IsDict(v) == Len(v) = 3 /\ v[1] = "<dict>"

\* a key whose value is a list carries, when it is missing or null, one of these
AbsentList == <<[py |-> "absent"]>>
NoneList == <<[py |-> "None"]>>

\* d.get(key) and d.get(key, default) on the value v stored under key
Get(v) == IF v = Absent THEN None ELSE v
GetOr(v, default) == IF v = Absent THEN default ELSE v

\* rec.get(key, []) or [] for a list-valued key
ListOrEmpty(v) == IF v \in {AbsentList, NoneList} THEN <<>> ELSE v

\* str(v) of None, a number or a str
Str(v) == IF v = None THEN S_None ELSE IF IsNum(v) \/ IsFloat(v) THEN Tail(v) ELSE v

\* sub in s
Contains(sub, s) ==
    \E i \in 1..(Len(s) - Len(sub) + 1) : SubSeq(s, i, i + Len(sub) - 1) = sub

\* s.replace(old, new), old non-empty
RECURSIVE Replace(_, _, _)
Replace(s, old, new) ==
    IF Len(s) < Len(old) THEN s
    ELSE IF SubSeq(s, 1, Len(old)) = old
         THEN new \o Replace(SubSeq(s, Len(old) + 1, Len(s)), old, new)
         ELSE <<Head(s)>> \o Replace(Tail(s), old, new)

Digits == {"0","1","2","3","4","5","6","7","8","9"}

\* float(text) succeeds; of the texts float accepts the inputs here can form
\* only digits with at most one point
IsFloatText(text) ==
    /\ \E i \in DOMAIN text : text[i] \in Digits
    /\ \A i \in DOMAIN text : text[i] \in Digits \cup {"."}
    /\ Cardinality({i \in DOMAIN text : text[i] = "."}) <= 1

RECURSIVE DropLeadingZeros(_)
DropLeadingZeros(s) == IF s # <<>> /\ Head(s) = "0" THEN DropLeadingZeros(Tail(s)) ELSE s

RECURSIVE DropTrailingZeros(_)
DropTrailingZeros(s) ==
    IF s # <<>> /\ s[Len(s)] = "0" THEN DropTrailingZeros(SubSeq(s, 1, Len(s) - 1)) ELSE s

\* float(text) for a text IsFloatText accepts
FloatOf(text) ==
    LET dots == {i \in DOMAIN text : text[i] = "."}
        dot == IF dots = {} THEN Len(text) + 1 ELSE CHOOSE i \in dots : TRUE
        int_part == DropLeadingZeros(SubSeq(text, 1, dot - 1))
        frac_part == DropTrailingZeros(SubSeq(text, dot + 1, Len(text)))
    IN  Float((IF int_part = <<>> THEN <<"0">> ELSE int_part) \o <<".">>
              \o (IF frac_part = <<>> THEN <<"0">> ELSE frac_part))

\* self.key_mappings, in dict order
key_mappings == <<
    [col |-> "RT_min", synonyms |-> {<<"r","t">>,
        <<"r","e","t","e","n","t","i","o","n"," ","t","i","m","e">>,
        <<"r","e","l","a","t","i","v","e","_","r","e","t","e","n","t","i","o","n","_","t","i","m","e">>,
        <<"r",".","t",".">>}],
    [col |-> "LOQ", synonyms |-> {<<"l","o","q">>,
        <<"l","i","m","i","t"," ","o","f"," ","q","u","a","n","t","i","f","i","c","a","t","i","o","n">>,
        <<"l","o","d">>,
        <<"d","e","t","e","c","t","i","o","n","_","s","e","n","s","i","t","i","v","i","t","y">>,
        <<"c","o","n","c","e","n","t","r","a","t","i","o","n">>}],
    [col |-> "Matrix_Tag", synonyms |-> {<<"c","o","n","t","e","x","t">>,
        <<"m","a","t","r","i","x">>,
        <<"s","o","l","v","e","n","t">>,
        <<"g","r","o","u","p">>,
        <<"s","o","u","r","c","e">>}],
    [col |-> "DP_V", synonyms |-> {<<"d","p">>,
        <<"d","e","c","l","u","s","t","e","r","i","n","g"," ","p","o","t","e","n","t","i","a","l">>,
        <<"c","o","n","e"," ","v","o","l","t","a","g","e">>}],
    [col |-> "EP_V", synonyms |-> {<<"e","p">>,
        <<"e","n","t","r","a","n","c","e"," ","p","o","t","e","n","t","i","a","l">>}],
    [col |-> "CXP_V", synonyms |-> {<<"c","x","p">>,
        <<"c","o","l","l","i","s","i","o","n"," ","c","e","l","l"," ","e","x","i","t"," ","p","o","t","e","n","t","i","a","l">>}],
    [col |-> "FV_V", synonyms |-> {<<"f","v">>,
        <<"f","r","a","g","m","e","n","t","o","r"," ","v","o","l","t","a","g","e">>,
        <<"i","n","-","s","o","u","r","c","e"," ","f","r","a","g","m","e","n","t","a","t","i","o","n"," ","v","o","l","t","a","g","e">>,
        <<"s","o","u","r","c","e"," ","f","r","a","g","m","e","n","t","a","t","i","o","n"," ","v","o","l","t","a","g","e">>}]
    >>

\* self.type_map, in dict order
type_map == <<<<<<"q","u","a","n","t","i","f","i","c","a","t","i","o","n">>, <<"Q","u","a","n","t">>>>,
    <<<<"q","u","a","n","t">>, <<"Q","u","a","n","t">>>>,
    <<<<"U+5B9A","U+91CF">>, <<"Q","u","a","n","t">>>>,
    <<<<"c","o","n","f","i","r","m","a","t","i","o","n">>, <<"Q","u","a","l">>>>,
    <<<<"q","u","a","l">>, <<"Q","u","a","l">>>>,
    <<<<"U+5B9A","U+6027">>, <<"Q","u","a","l">>>>>>

\* self.pol_map, in dict order
pol_map == <<<<<<"p","o","s","i","t","i","v","e">>, <<"P","o","s">>>>,
    <<<<"p","o","s">>, <<"P","o","s">>>>,
    <<<<"e","s","i","+">>, <<"P","o","s">>>>,
    <<<<"+">>, <<"P","o","s">>>>,
    <<<<"U+6B63">>, <<"P","o","s">>>>,
    <<<<"n","e","g","a","t","i","v","e">>, <<"N","e","g">>>>,
    <<<<"n","e","g">>, <<"N","e","g">>>>,
    <<<<"e","s","i","-">>, <<"N","e","g">>>>,
    <<<<"-">>, <<"N","e","g">>>>,
    <<<<"U+8D1F">>, <<"N","e","g">>>>>>

S_V == <<"V">>
S_Category == <<"C","a","t","e","g","o","r","y">>
S_Target == <<"T","a","r","g","e","t">>
S_NA == <<"N","/","A">>
S_ev == <<"e","v">>
S_v == <<"v">>
S_Quant == <<"Q","u","a","n","t">>
S_Qual == <<"Q","u","a","l">>

\* next((v for k, v in map.items() if k in raw), default)
FirstKeyword(map, raw, default) ==
    LET hits == {i \in DOMAIN map : Contains(map[i][1], raw)}
    IN  IF hits = {} THEN default
        ELSE map[CHOOSE i \in hits : \A j \in hits : i <= j][2]

\* clean_ce: <<CE_Value, CE_Unit>>
clean_ce(ce_raw) ==
    LET val == IF IsDict(ce_raw) THEN Get(ce_raw[2])
               ELSE ce_raw
        unit == IF IsDict(ce_raw) THEN GetOr(ce_raw[3], S_V) ELSE S_V
        val_str == Strip(Replace(Replace(Lower(Str(val)), S_ev, <<>>), S_v, <<>>))
    IN  IF val # None
        THEN IF Lower(Str(val)) \in {<<"m">>, <<"l">>, <<"h">>}
             THEN <<Lower(Str(val)), S_Category>>
             ELSE IF IsFloatText(val_str)
                  THEN <<FloatOf(val_str),
                         IF Contains(S_ev, Lower(Str(unit))) \/ Contains(S_v, Lower(Str(unit)))
                         THEN S_V ELSE unit>>
                  ELSE <<Str(val), unit>>
        ELSE <<None, None>>

\* the target_col whose synonyms hold p_name, "" when there is none
TargetCol(p_name) ==
    LET hits == {i \in DOMAIN key_mappings : p_name \in key_mappings[i].synonyms}
    IN  IF hits = {} THEN ""
        ELSE key_mappings[CHOOSE i \in hits : \A j \in hits : i <= j].col

\* a dict in insertion order: d[k] = v
OrderedSet(d, k, v) ==
    [keys |-> IF k \in DOMAIN d.val THEN d.keys ELSE Append(d.keys, k),
     val |-> [x \in DOMAIN d.val \cup {k} |-> IF x = k THEN v ELSE d.val[x]]]

EmptyDict == [keys |-> <<>>, val |-> <<>>]

\* f"{val} {unit}" if unit else str(val)
FullVal(val, unit) ==
    IF Truthy(unit) THEN Str(val) \o <<" ">> \o Str(unit) ELSE Str(val)

\* promoted_params with the value of the last match, not the first
Promote_LastWins(promoted_params, target_col, value) ==
    (target_col :> value) @@ promoted_params

\* if target_col not in promoted_params: promoted_params[target_col] = value
Promote(promoted_params, target_col, value) ==
    IF target_col \in DOMAIN promoted_params THEN promoted_params
    ELSE (target_col :> value) @@ promoted_params

\* the loop over perfs: [promoted_params, other_params]
RECURSIVE PerfLoop(_, _, _, _)
PerfLoop(perfs, i, promoted_params, other_params) ==
    IF i > Len(perfs) THEN [promoted_params |-> promoted_params, other_params |-> other_params]
    ELSE LET p == perfs[i]
             p_name == Strip(Lower(Str(GetOr(p.parameter_name, <<>>))))
             target_col == TargetCol(p_name)
         IN  IF target_col # ""
             THEN PerfLoop(perfs, i + 1,
                      Promote(promoted_params, target_col, Get(p.value)),
                      other_params)
             ELSE PerfLoop(perfs, i + 1, promoted_params,
                      OrderedSet(other_params, Get(p.parameter_name),
                                 FullVal(Get(p.value), Get(p.unit))))

\* json.dumps of a str: the inputs hold no character json escapes but these two
RECURSIVE JsonEscape(_)
JsonEscape(s) ==
    IF s = <<>> THEN <<>>
    ELSE (IF Head(s) \in {"\"", "\\"} THEN <<"\\", Head(s)>> ELSE <<Head(s)>>)
         \o JsonEscape(Tail(s))

JsonString(s) == <<"\"">> \o JsonEscape(s) \o <<"\"">>

\* json.dumps of a dict key: None is written as "null"
JsonKey(k) == JsonString(IF k = None THEN S_null ELSE k)

RECURSIVE JsonItems(_, _)
JsonItems(d, i) ==
    IF i > Len(d.keys) THEN <<>>
    ELSE (IF i > 1 THEN <<",", " ">> ELSE <<>>)
         \o JsonKey(d.keys[i]) \o <<":", " ">> \o JsonString(d.val[d.keys[i]])
         \o JsonItems(d, i + 1)

\* json.dumps(other_params) if other_params else None
OtherParamsJson(other_params) ==
    IF other_params.keys = <<>> THEN None
    ELSE <<"{">> \o JsonItems(other_params, 1) \o <<"}">>

\* the row appended for one element of ms_list
Row(common_info, promoted_params, other_params, ms) ==
    LET raw_pol == Lower(Str(GetOr(ms.polarity, <<>>)))
        type_text == IF Truthy(GetOr(ms.parameter_type, <<>>))
                     THEN GetOr(ms.parameter_type, <<>>)
                     ELSE GetOr(ms.source_ion_label, <<>>)
        raw_type == Lower(Str(type_text))
        ce == clean_ce(Get(ms.collision_energy))
    IN  ("Other_Params" :> OtherParamsJson(other_params))
        @@ ("CE_Value" :> ce[1]) @@ ("CE_Unit" :> ce[2])
        @@ ("Type" :> FirstKeyword(type_map, raw_type, S_Target))
        @@ ("Polarity" :> IF raw_pol # S_none THEN FirstKeyword(pol_map, raw_pol, S_NA)
                          ELSE None)
        @@ ("Product_mz" :> Get(ms.product_mz))
        @@ ("Precursor_mz" :> Get(ms.precursor_mz))
        @@ promoted_params @@ common_info

\* for ms in ms_list, stopping after the first element
Explode_FirstOnly(ms_list) == IF ms_list = <<>> THEN <<>> ELSE <<Head(ms_list)>>

\* for ms in ms_list
Explode(ms_list) == ms_list

\* the rows one record contributes
RecordRows(rec) ==
    LET common_info ==
            ("Method_ID" :> Get(rec.method_id))
            @@ ("Run_ID" :> Get(rec.run_config_id))
            @@ ("Compound" :> Get(rec.compound_english_name))
            @@ ("CAS" :> Get(rec.CAS_number))
            @@ ("Source_File" :> Get(rec.source_file))
        perfs == ListOrEmpty(rec.performance_parameters)
        params == PerfLoop(perfs, 1, <<>>, EmptyDict)
        ms_list == Explode(ListOrEmpty(rec.mass_spec_params))
    IN  [k \in DOMAIN ms_list |->
            Row(common_info, params.promoted_params, params.other_params, ms_list[k])]

RECURSIVE ProcessFrom(_, _)
ProcessFrom(records, i) ==
    IF i > Len(records) THEN <<>>
    ELSE RecordRows(records[i]) \o ProcessFrom(records, i + 1)

\* L3MasterCleaner.process_records
process_records(records) == ProcessFrom(records, 1)

-----------------------------------------------------------------------------
(* Bounded inputs of step3 *)

MaxFlat == 2

Param(name, value, unit) == [parameter_name |-> name, value |-> value, unit |-> unit]

P_rt == Param(<<"R","T">>, Num(<<"2">>), <<"m","i","n">>)
P_rt2 == Param(<<" ","r",".","t","."," ">>, Num(<<"5">>), Absent)
P_x1 == Param(<<"x">>, Num(<<"1">>), <<"m","g">>)
P_x2 == Param(<<"x">>, Num(<<"2">>), Absent)
P_unnamed == Param(Absent, <<"y">>, None)
P_lod == Param(<<"L","O","D">>, <<"0",".","1">>, Absent)

PerfLists ==
    {AbsentList, NoneList, <<>>}
    \cup {<<p>> : p \in {P_rt, P_rt2, P_x1, P_x2, P_unnamed}}
    \cup {<<P_x1, P_x2>>, <<P_rt, P_rt2>>, <<P_x1, P_rt>>, <<P_unnamed, P_x1>>,
          <<P_rt2, P_unnamed>>, <<P_rt2, P_rt>>, <<P_lod, P_rt>>}

Transition(parameter_type, source_ion_label, polarity, collision_energy) ==
    [precursor_mz |-> Num(<<"2">>), product_mz |-> Absent,
     polarity |-> polarity, parameter_type |-> parameter_type,
     source_ion_label |-> source_ion_label, collision_energy |-> collision_energy]

Ms0 == Transition(<<"Q","u","a","n","t","i","f","i","e","r">>, Absent, <<"E","S","I","+">>, None)

TypeTransitions ==
    {Transition(t, l, Absent, Absent) :
        t \in {Absent, None, <<>>, <<"q","u","a","l","i","f","i","e","r"," ","i","o","n">>, <<"M","R","M">>},
        l \in {Absent, <<"C","o","n","f","i","r","m","a","t","i","o","n">>}}

CeValues == {None, Num(<<"2","5">>), <<"2","5"," ","e","V">>, <<"M">>, <<"x">>}
CeUnits == {Absent, None, <<"e","V">>, <<"%">>}

CeRaw ==
    CeValues \cup {<<"2","v","5">>} \cup {Dict(v, u) : v \in CeValues, u \in CeUnits}

CeTransitions == {Transition(<<"Q","u","a","n","t","i","f","i","e","r">>, Absent, None, ce) : ce \in CeRaw}

FlatRecord(perfs, ms_list) ==
    [method_id |-> <<"m">>, run_config_id |-> Absent, compound_english_name |-> NameAb,
     CAS_number |-> None, source_file |-> Absent,
     performance_parameters |-> perfs, mass_spec_params |-> ms_list]

FlatRecords ==
    {FlatRecord(perfs, ms_list) : perfs \in PerfLists, ms_list \in {<<Ms0>>}}
    \cup {FlatRecord(AbsentList, ms_list) :
            ms_list \in {AbsentList, NoneList, <<>>}
                        \cup {<<ms>> : ms \in TypeTransitions \cup CeTransitions}
                        \cup {<<Ms0, ms>> : ms \in TypeTransitions}}

FlatInputs == UNION {[1..n -> FlatRecords] : n \in 0..MaxFlat}

-----------------------------------------------------------------------------
(* step3 as a state machine *)

InitL3 ==
    /\ pc = "l3"
    /\ NoFiles
    /\ AuditIdle
    /\ L1Idle
    /\ ApiIdle
    /\ l2_data \in FlatInputs
    /\ master_rows = <<>>

\* cleaned_rows = cleaner.process_records(l2_data)
flatten_records ==
    /\ pc = "l3"
    /\ master_rows' = process_records(l2_data)
    /\ pc' = "master"
    /\ UNCHANGED <<identityVars, l2_data, raw_tree, cleaned_tree, recleaned_tree, stats,
                   apiVars, auditVars>>

NextL3 == flatten_records

SpecL3 == InitL3 /\ [][NextL3]_vars

-----------------------------------------------------------------------------
(* Properties of MasterFlattener (SpecL3) *)

\* len(mass_spec_params) of a record, 0 when the key is missing or null
TransitionCount(rec) ==
    IF rec.mass_spec_params \in {AbsentList, NoneList} THEN 0
    ELSE Len(rec.mass_spec_params)

RECURSIVE TransitionsBefore(_, _)
TransitionsBefore(records, i) ==
    IF i <= 1 THEN 0
    ELSE TransitionsBefore(records, i - 1) + TransitionCount(records[i - 1])

\* the positions in master_rows where the rows of record i are expected
RowsOf(i) ==
    {TransitionsBefore(l2_data, i) + k : k \in 1..TransitionCount(l2_data[i])}

\* C11: the number of rows process_records returns is the sum over the input
\* records of the length of mass_spec_params, a record whose mass_spec_params
\* is missing, null or empty contributing no row.
C11_RowCountLaw ==
    pc = "master" => Len(master_rows) = TransitionsBefore(l2_data, Len(l2_data) + 1)

C11_Witness ==
    /\ pc = "master"
    /\ \E i, j \in DOMAIN l2_data :
        /\ l2_data[i].mass_spec_params \in {AbsentList, NoneList, <<>>}
        /\ TransitionCount(l2_data[j]) = 2
    /\ Len(master_rows) = 2

\* the positions in the performance_parameters of rec of the parameters whose
\* lower-cased, trimmed name is a synonym of the column
SynonymMatches(rec, mapping) ==
    LET perfs == ListOrEmpty(rec.performance_parameters)
    IN  {j \in DOMAIN perfs :
            Strip(Lower(Str(GetOr(perfs[j].parameter_name, <<>>)))) \in mapping.synonyms}

\* C21: for each canonical column, the promoted value in every row of a record
\* is the value of the first parameter of that record whose lower-cased,
\* trimmed name is a synonym of the column; later parameters of the same column
\* do not change it, a record with no such parameter has no such column, and
\* the parameters of another record play no part.
C21_FirstMatchPerRecord ==
    pc = "master" =>
        \A i \in DOMAIN l2_data : \A r \in RowsOf(i) : \A c \in DOMAIN key_mappings :
            LET matches == SynonymMatches(l2_data[i], key_mappings[c])
                first == CHOOSE j \in matches : \A k \in matches : j <= k
            IN  IF matches = {} THEN key_mappings[c].col \notin DOMAIN master_rows[r]
                ELSE master_rows[r][key_mappings[c].col]
                        = Get(l2_data[i].performance_parameters[first].value)

\* a record with two retention time parameters keeps the first one, next to a
\* record whose only retention time parameter has the other value
C21_Witness ==
    /\ pc = "master"
    /\ Len(l2_data) = 2
    /\ l2_data[1].performance_parameters = <<P_rt, P_rt2>>
    /\ l2_data[2].performance_parameters = <<P_rt2>>
    /\ Len(master_rows) = 2
    /\ master_rows[1]["RT_min"] = P_rt.value
    /\ master_rows[2]["RT_min"] = P_rt2.value

\* the type text of a transition holds none of the keywords of type_map
NoTypeKeyword(ms) ==
    \A t \in {ms.parameter_type, ms.source_ion_label} :
        t \in {Absent, None} \/ \A k \in DOMAIN type_map : ~Contains(type_map[k][1], Lower(t))

\* C13: every output row's Type is Quant or Qual, and a transition whose type
\* text (missing and empty text included) holds no quantification or
\* confirmation keyword gets the default Quant.
C13_TypeQuantOrQual ==
    pc = "master" =>
        \A i \in DOMAIN l2_data : \A k \in 1..TransitionCount(l2_data[i]) :
            LET row == master_rows[TransitionsBefore(l2_data, i) + k]
            IN  /\ row["Type"] \in {S_Quant, S_Qual}
                /\ NoTypeKeyword(l2_data[i].mass_spec_params[k]) => row["Type"] = S_Quant

\* the value and the unit a collision_energy carries
CeValue(ce) == IF IsDict(ce) THEN Get(ce[2]) ELSE ce
CeUnit(ce) == IF IsDict(ce) THEN ce[3] ELSE Absent

\* the value reads as a number once a voltage unit written after it is dropped
ParsesAsNumber(val) ==
    IsFloatText(Strip(Replace(Replace(Lower(Str(val)), S_ev, <<>>), S_v, <<>>)))

\* a voltage unit token comes with the value: in the unit, in the value's own
\* text, or by the unit being left out
HasVoltageToken(ce) ==
    \/ CeUnit(ce) = Absent
    \/ Contains(S_v, Lower(Str(CeUnit(ce))))
    \/ Contains(S_v, Lower(Str(CeValue(ce))))

\* C14: clean_ce gives a number with a voltage unit token (numeric value, "V"),
\* keeps "l", "m" or "h" (any case) as the categorical code, preserves any
\* other non-null value as an opaque string, and gives no value for null.
C14_CeClassification ==
    pc = "master" =>
        \A i \in DOMAIN l2_data : \A k \in 1..TransitionCount(l2_data[i]) :
            LET row == master_rows[TransitionsBefore(l2_data, i) + k]
                ce == Get(l2_data[i].mass_spec_params[k].collision_energy)
                val == CeValue(ce)
            IN  IF val = None THEN row["CE_Value"] = None
                ELSE IF Lower(Str(val)) \in {<<"l">>, <<"m">>, <<"h">>}
                     THEN row["CE_Value"] = Lower(Str(val))
                ELSE IF ParsesAsNumber(val) /\ HasVoltageToken(ce)
                     THEN IsFloat(row["CE_Value"]) /\ row["CE_Unit"] = S_V
                ELSE row["CE_Value"] = Str(val)

\* Scenario D of clean_ce: {value: 25, unit: "eV"} gives CE_Value 25.0 and CE_Unit "V"
ScenarioD_CeValue ==
    clean_ce(Dict(Num(<<"2","5">>), <<"e","V">>)) = <<Float(<<"2","5",".","0">>), S_V>>

\* the parameters of a record that no synonym of key_mappings matches
Unpromoted(rec) ==
    {n \in DOMAIN ListOrEmpty(rec.performance_parameters) :
        TargetCol(Strip(Lower(Str(GetOr(
            ListOrEmpty(rec.performance_parameters)[n].parameter_name, <<>>))))) = ""}

\* the text json.dumps writes for parameter p in Other_Params
ResidualEntry(p) ==
    JsonKey(Get(p.parameter_name)) \o <<":", " ">>
    \o JsonString(FullVal(Get(p.value), Get(p.unit)))

\* C20: every performance parameter whose name matches no synonym appears in
\* Other_Params of each row of its record under its name with its value, also
\* when two unpromoted parameters of the record have the same parameter_name.
C20_NoUnpromotedLost ==
    pc = "master" =>
        \A i \in DOMAIN l2_data : \A k \in 1..TransitionCount(l2_data[i]) :
            \A n \in Unpromoted(l2_data[i]) :
                LET row == master_rows[TransitionsBefore(l2_data, i) + k]
                IN  /\ row["Other_Params"] # None
                    /\ Contains(ResidualEntry(l2_data[i].performance_parameters[n]),
                                row["Other_Params"])

-----------------------------------------------------------------------------
(* Properties of IdentityGraphBuilder (step2), checked under SpecL2 *)

\* record i of data has both a CAS and a name
BothPresent(data, i) ==
    Present(data[i].CAS_number) /\ Present(data[i].compound_english_name)

\* the records that pair cas with a name
PairedWith(data, cas) ==
    {i \in DOMAIN data : BothPresent(data, i) /\ StrOrEmpty(data[i].CAS_number) = cas}

\* the names observed with cas
ObservedNames(data, cas) ==
    {StrOrEmpty(data[i].compound_english_name) : i \in PairedWith(data, cas)}

\* the shortest name observed with cas, the first seen of several
FirstSeenShortest(data, cas) ==
    LET shortest == {i \in PairedWith(data, cas) : \A j \in PairedWith(data, cas) :
                        Len(StrOrEmpty(data[i].compound_english_name))
                            <= Len(StrOrEmpty(data[j].compound_english_name))}
    IN  StrOrEmpty(data[CHOOSE i \in shortest : \A j \in shortest : i <= j]
                        .compound_english_name)

\* C18: for every CAS of a both-present record the Verified compound's
\* preferred_name is a shortest name observed with that CAS, the first seen in
\* record order of several shortest ones, and synonyms are exactly the other
\* observed names.
C18_PreferredFirstSeenShortest ==
    pc = "l2" =>
        \A i \in DOMAIN l1_data :
            BothPresent(l1_data, i) =>
                LET cas == StrOrEmpty(l1_data[i].CAS_number)
                IN  \E k \in DOMAIN final_compounds :
                        /\ final_compounds[k].cas_number = cas
                        /\ final_compounds[k].status = "Verified"
                        /\ final_compounds[k].preferred_name = FirstSeenShortest(l1_data, cas)
                        /\ final_compounds[k].synonyms
                            = ObservedNames(l1_data, cas) \ {FirstSeenShortest(l1_data, cas)}

\* the key the statement gives a compound record
IdentityKey(c) == IF c.cas_number # None THEN c.cas_number ELSE Lower(c.preferred_name)

\* the same key, kept apart by the field it is taken from
FieldKey(c) ==
    IF c.cas_number # None THEN <<"cas_number", c.cas_number>>
    ELSE <<"preferred_name", Lower(c.preferred_name)>>

\* C19 as stated: no two compound records share the key cas_number if present,
\* else lowercase preferred_name.
C19_UniqueIdentityKey ==
    \A i, j \in DOMAIN final_compounds :
        i # j => IdentityKey(final_compounds[i]) # IdentityKey(final_compounds[j])

\* C19 amended: no two compound records share a cas_number, and no two records
\* without cas_number share a lowercase preferred_name; an Orphan whose name
\* reads like the cas_number of another record is a record of its own.
C19_UniqueFieldKey ==
    \A i, j \in DOMAIN final_compounds :
        i # j => FieldKey(final_compounds[i]) # FieldKey(final_compounds[j])

C19_Witness ==
    /\ pc = "l2"
    /\ \E i, j \in DOMAIN l1_data :
        /\ i # j
        /\ ~Present(l1_data[i].CAS_number) /\ ~Present(l1_data[j].CAS_number)
        /\ l1_data[i].compound_english_name = NameAb
        /\ l1_data[j].compound_english_name = NameAB
    /\ \E k \in DOMAIN final_compounds :
        /\ final_compounds[k].status = "Orphan"
        /\ Lower(final_compounds[k].preferred_name) = Lower(NameAb)
    /\ \E k \in DOMAIN final_compounds : final_compounds[k].status = "Verified"

\* the names of the name-only records of data
NameOnlyNames(data) ==
    {StrOrEmpty(data[i].compound_english_name) : i \in {j \in DOMAIN data : NameOnly(data, j)}}

\* the names of the both-present records of data
VerifiedNames(data) ==
    {StrOrEmpty(data[i].compound_english_name) : i \in {j \in DOMAIN data : BothPresent(data, j)}}

\* C22: an Orphan compound exists for a name exactly when the name occurs in a
\* name-only record and does not occur, compared without case, among the names
\* of the both-present records; a name yields one Orphan however many case
\* variants or records carry it, named by a spelling of a name-only record.
C22_OrphanIffNameOnlyUnverified ==
    pc = "l2" =>
        /\ {Lower(final_compounds[k].preferred_name) : k \in Orphans}
            = {Lower(n) : n \in NameOnlyNames(l1_data)}
              \ {Lower(n) : n \in VerifiedNames(l1_data)}
        /\ \A k, m \in Orphans :
            k # m => Lower(final_compounds[k].preferred_name)
                     # Lower(final_compounds[m].preferred_name)
        /\ \A k \in Orphans : final_compounds[k].preferred_name \in NameOnlyNames(l1_data)

\* a name-only name whose other spelling is a synonym of a Verified compound is
\* dropped, next to a name-only name that becomes the one Orphan
C22_Witness ==
    /\ pc = "l2"
    /\ NameAb \in NameOnlyNames(l1_data)
    /\ VerifiedNames(l1_data) = {NameAB, <<"1">>}
    /\ \E k \in DOMAIN final_compounds :
        /\ final_compounds[k].status = "Verified"
        /\ final_compounds[k].preferred_name = <<"1">>
        /\ final_compounds[k].synonyms = {NameAB}
    /\ Orphans = {}

-----------------------------------------------------------------------------
(* step1_clean_methods_L1.py and step1_L1_clean.py *)

\* A JSON tree: a str, null, a number, a list or a dict, told apart by t and
\* by the name of the field that holds its content
TStr(chars) == [t |-> "str", chars |-> chars]
TNone == [t |-> "None"]
TInt(n) == [t |-> "int", n |-> n]
TList(items) == [t |-> "list", items |-> items]
TDict(items) == [t |-> "dict", fields |-> items]

NBSP == "U+00A0"
ZWSP == "U+200B"
CombiningAcute == "U+0301"
FullwidthA == "U+FF21"

\* the compatibility mappings of NFKC among the characters used here
Compat == (FullwidthA :> "A") @@ (NBSP :> " ")

\* the canonical compositions of a letter used here with U+0301
Composed ==
    ("e" :> "U+00E9") @@ ("n" :> "U+0144") @@ ("o" :> "U+00F3") @@ ("u" :> "U+00FA")
    @@ ("l" :> "U+013A") @@ ("A" :> "U+00C1") @@ ("N" :> "U+0143")

\* canonical composition: a combining acute joins the letter right before it
RECURSIVE Compose(_)
Compose(s) ==
    IF s = <<>> THEN <<>>
    ELSE IF Len(s) >= 2 /\ s[2] = CombiningAcute /\ s[1] \in DOMAIN Composed
         THEN <<Composed[s[1]]>> \o Compose(SubSeq(s, 3, Len(s)))
         ELSE <<Head(s)>> \o Compose(Tail(s))

\* unicodedata.normalize('NFKC', s)
NFKC(s) == Compose([i \in DOMAIN s |-> IF s[i] \in DOMAIN Compat THEN Compat[s[i]] ELSE s[i]])

\* \w of re
IsWord(ch) ==
    \/ ch \in DOMAIN ToLower
    \/ ch \in {LowerChars[i] : i \in DOMAIN LowerChars}
    \/ ch \in {"0","1","2","3","4","5","6","7","8","9","_"}
    \/ ch \in {Composed[b] : b \in DOMAIN Composed}

\* where a match of (\w)-\s*[\n\r]+\s*(\w) that starts at s[1] ends, 0 for none
HyphenMatchEnd(s) ==
    IF Len(s) >= 4 /\ IsWord(s[1]) /\ s[2] = "-"
    THEN LET after == {j \in 3..Len(s) : ~IsSpace(s[j])}
             j == IF after = {} THEN 0 ELSE CHOOSE x \in after : \A y \in after : x <= y
         IN  IF j > 3 /\ IsWord(s[j]) /\ \E k \in 3..(j - 1) : s[k] \in {"\n", "\r"}
             THEN j ELSE 0
    ELSE 0

\* re.sub(r'(\w)-\s*[\n\r]+\s*(\w)', r'\1\2', s)
RECURSIVE Dehyphenate(_)
Dehyphenate(s) ==
    IF s = <<>> THEN <<>>
    ELSE IF HyphenMatchEnd(s) > 0
         THEN <<s[1], s[HyphenMatchEnd(s)]>>
              \o Dehyphenate(SubSeq(s, HyphenMatchEnd(s) + 1, Len(s)))
         ELSE <<Head(s)>> \o Dehyphenate(Tail(s))

\* s.replace('\u00a0', ' ').replace('\u200b', '')
Visible(s) == Replace(Replace(s, <<NBSP>>, <<" ">>), <<ZWSP>>, <<>>)

\* " ".join(s.split()), s without leading whitespace
RECURSIVE JoinWords(_)
JoinWords(s) ==
    IF s = <<>> THEN <<>>
    ELSE IF IsSpace(Head(s))
         THEN (IF LStrip(s) = <<>> THEN <<>> ELSE <<" ">>) \o JoinWords(LStrip(s))
         ELSE <<Head(s)>> \o JoinWords(Tail(s))

\* " ".join(s.split())
Collapse(s) == JoinWords(LStrip(s))

\* the steps of normalize_string before the null test
Normalized(val) == Collapse(Visible(Dehyphenate(NFKC(val))))

\* MethodL1DeepCleaner.normalize_string on a str
normalize_string(val) ==
    IF Lower(Normalized(val)) \in {S_none, S_null, <<>>} THEN TNone
    ELSE TStr(Normalized(val))

\* MethodL1DeepCleaner.clean_dict
RECURSIVE clean_dict(_)
clean_dict(d) ==
    IF d.t = "dict" THEN TDict([k \in DOMAIN d.fields |-> clean_dict(d.fields[k])])
    ELSE IF d.t = "list" THEN TList([i \in DOMAIN d.items |-> clean_dict(d.items[i])])
    ELSE IF d.t = "str" THEN normalize_string(d.chars)
    ELSE d

\* val.strip().replace('\n', ' ').replace('\t', ' ')
CleanedString(val) == Replace(Replace(Strip(val), <<"\n">>, <<" ">>), <<"\t">>, <<" ">>)

\* clean_string_with_audit
RECURSIVE clean_string_with_audit(_)
clean_string_with_audit(val) ==
    IF val.t = "str" THEN TStr(CleanedString(val.chars))
    ELSE IF val.t = "list"
    THEN TList([i \in DOMAIN val.items |-> clean_string_with_audit(val.items[i])])
    ELSE IF val.t = "dict"
    THEN TDict([k \in DOMAIN val.fields |-> clean_string_with_audit(val.fields[k])])
    ELSE val

\* the str leaves of a tree, in the order the recursion visits them
RECURSIVE Leaves(_)
RECURSIVE LeavesOfList(_, _)
RECURSIVE LeavesOfDict(_, _)
Leaves(d) ==
    IF d.t = "str" THEN <<d.chars>>
    ELSE IF d.t = "list" THEN LeavesOfList(d.items, 1)
    ELSE IF d.t = "dict" THEN LeavesOfDict(d.fields, DOMAIN d.fields)
    ELSE <<>>
LeavesOfList(items, i) ==
    IF i > Len(items) THEN <<>> ELSE Leaves(items[i]) \o LeavesOfList(items, i + 1)
LeavesOfDict(items, keys) ==
    IF keys = {} THEN <<>>
    ELSE LET k == CHOOSE x \in keys : TRUE
         IN  Leaves(items[k]) \o LeavesOfDict(items, keys \ {k})

\* how many of the leaves make the test hold
CountLeaves(leaves, Test(_)) == Cardinality({i \in DOMAIN leaves : Test(leaves[i])})

UnicodeFix(val) == NFKC(val) # val
HyphenFix(val) == Dehyphenate(NFKC(val)) # NFKC(val)
InvisibleFix(val) == Visible(Dehyphenate(NFKC(val))) # Dehyphenate(NFKC(val))
WhitespaceFix(val) == Normalized(val) # Visible(Dehyphenate(NFKC(val)))
StringCleanup(val) == CleanedString(val) # val

\* self.stats after clean_dict(d)
MethodStats(s, d) ==
    [s EXCEPT !.unicode_fixes = @ + CountLeaves(Leaves(d), UnicodeFix),
              !.hyphen_fixes = @ + CountLeaves(Leaves(d), HyphenFix),
              !.invisible_char_fixes = @ + CountLeaves(Leaves(d), InvisibleFix),
              !.whitespace_fixes = @ + CountLeaves(Leaves(d), WhitespaceFix)]

\* auditor.stats after clean_string_with_audit(val)
AuditStats(s, val) ==
    [s EXCEPT !.string_cleanups = @ + CountLeaves(Leaves(val), StringCleanup)]

NoStats ==
    [unicode_fixes |-> 0, hyphen_fixes |-> 0, whitespace_fixes |-> 0,
     invisible_char_fixes |-> 0, string_cleanups |-> 0]

-----------------------------------------------------------------------------
(* Bounded inputs of step1 *)

MaxStr == 4

\* the characters a corpus of strings is written in
Alphabets ==
    {{"e", CombiningAcute, ZWSP, " "},
     {"e", "-", "\n", " "},
     {"N", "o", "n", "e"},
     {"n", "u", "l", "\t"},
     {FullwidthA, NBSP, "\r", "e"}}

StringsOver(alphabet) == UNION {[1..n -> alphabet] : n \in 0..MaxStr}

\* leaves put inside lists and dicts
NestedLeaves ==
    {TNone, TInt(5), TStr(<<"e", ZWSP, CombiningAcute>>), TStr(<<" ", "e", "\n">>),
     TStr(<<"N", "o", "n", "e">>), TStr(<<>>)}

NestedLists ==
    {TList(<<>>)} \cup {TList(<<a>>) : a \in NestedLeaves}
    \cup {TList(<<a, b>>) : a, b \in NestedLeaves}

NestedDicts ==
    {TDict([k \in {"name"} |-> a]) : a \in NestedLeaves \cup NestedLists}
    \cup {TDict([k \in {"name", "runs"} |-> IF k = "name" THEN a ELSE TList(<<b>>)]) :
            a, b \in NestedLeaves}

-----------------------------------------------------------------------------
(* step1 as a state machine: a normalizer, then the normalizer on its output *)

InitL1 ==
    /\ pc = "raw"
    /\ NoFiles
    /\ AuditIdle
    /\ L3Idle
    /\ ApiIdle
    /\ \/ \E alphabet \in Alphabets : \E s \in StringsOver(alphabet) : raw_tree = TStr(s)
       \/ raw_tree \in NestedLeaves \cup NestedLists \cup NestedDicts
    /\ cleaned_tree = <<>>
    /\ recleaned_tree = <<>>
    /\ stats = NoStats

\* m_clean = self.clean_dict(m)
clean_method ==
    /\ pc = "raw"
    /\ cleaned_tree' = clean_dict(raw_tree)
    /\ stats' = MethodStats(stats, raw_tree)
    /\ pc' = "method_clean"
    /\ UNCHANGED <<raw_tree, recleaned_tree>>
    /\ UNCHANGED <<identityVars, l2_data, master_rows, apiVars, auditVars>>

\* clean_dict on a tree it has produced
reclean_method ==
    /\ pc = "method_clean"
    /\ recleaned_tree' = clean_dict(cleaned_tree)
    /\ stats' = MethodStats(stats, cleaned_tree)
    /\ pc' = "method_reclean"
    /\ UNCHANGED <<raw_tree, cleaned_tree>>
    /\ UNCHANGED <<identityVars, l2_data, master_rows, apiVars, auditVars>>

\* cleaned_rec = clean_string_with_audit(rec)
clean_detection ==
    /\ pc = "raw"
    /\ cleaned_tree' = clean_string_with_audit(raw_tree)
    /\ stats' = AuditStats(stats, raw_tree)
    /\ pc' = "detection_clean"
    /\ UNCHANGED <<raw_tree, recleaned_tree>>
    /\ UNCHANGED <<identityVars, l2_data, master_rows, apiVars, auditVars>>

\* clean_string_with_audit on a tree it has produced
reclean_detection ==
    /\ pc = "detection_clean"
    /\ recleaned_tree' = clean_string_with_audit(cleaned_tree)
    /\ stats' = AuditStats(stats, cleaned_tree)
    /\ pc' = "detection_reclean"
    /\ UNCHANGED <<raw_tree, cleaned_tree>>
    /\ UNCHANGED <<identityVars, l2_data, master_rows, apiVars, auditVars>>

NextL1 == clean_method \/ reclean_method \/ clean_detection \/ reclean_detection

SpecL1 == InitL1 /\ [][NextL1]_vars

-----------------------------------------------------------------------------
(* Properties of the Normalizer (SpecL1) *)

\* C12: each normalizer applied to a tree it has produced returns the same
\* tree, for every input tree (clean_dict / normalize_string and
\* clean_string_with_audit).
C12_NormalizerFixedPoint ==
    pc \in {"method_reclean", "detection_reclean"} => recleaned_tree = cleaned_tree

\* the part of C12 that is about clean_string_with_audit
DetectionCleanerFixedPoint ==
    pc = "detection_reclean" => recleaned_tree = cleaned_tree

\* a str leaf as the Normalizer is to emit it: no whitespace at either end, no
\* two whitespace characters in a row, and no textual null
WellFormedLeaf(s) ==
    /\ s # <<>>
    /\ ~IsSpace(s[1]) /\ ~IsSpace(s[Len(s)])
    /\ \A i \in 1..(Len(s) - 1) : ~(IsSpace(s[i]) /\ IsSpace(s[i + 1]))
    /\ Lower(s) \notin {S_none, S_null}

LeavesWellFormed(tree) == \A i \in DOMAIN Leaves(tree) : WellFormedLeaf(Leaves(tree)[i])

\* C27: every string leaf the Normalizer emits has no leading or trailing
\* whitespace and no run of two or more whitespace characters, and none equals
\* "none", "null" or the empty string without case, for clean_string_with_audit
\* as well as for normalize_string.
C27_LeavesWellFormed ==
    pc \in {"method_clean", "detection_clean"} => LeavesWellFormed(cleaned_tree)

\* the part of C27 about MethodL1DeepCleaner.normalize_string
MethodLeavesWellFormed ==
    pc = "method_clean" => LeavesWellFormed(cleaned_tree)

-----------------------------------------------------------------------------
(* step4a_augment_api.py.py *)

MAX_RETRIES == 3
RETRY_DELAY == 2

\* time.sleep(0.3) after each row, in tenths of a second
ROW_DELAY_TENTHS == 3

S_PubChem_API == <<"P","u","b","C","h","e","m","_","A","P","I">>
S_High == <<"H","i","g","h">>
S_Direct_match == <<"D","i","r","e","c","t"," ","m","a","t","c","h"," ","f","r","o","m"," ","P","u","b","C","h","e","m"," ","A","P","I",".">>
S_Success == <<"S","u","c","c","e","s","s">>
S_Not_Found == <<"N","o","t"," ","F","o","u","n","d">>
S_CAS_Not_Found == <<"C","A","S"," ","N","o","t"," ","F","o","u","n","d">>
S_Error == <<"E","r","r","o","r">>

\* compound_name.replace(" ", "%20")
name_encoded(compound_name) == Replace(compound_name, <<" ">>, <<"%","2","0">>)

\* re.match(r'^\d{2,7}-\d{2}-\d$', s)
IsCasShaped(s) ==
    \E n \in 2..7 :
        /\ Len(s) = n + 5
        /\ \A i \in 1..n : s[i] \in Digits
        /\ s[n + 1] = "-"
        /\ s[n + 2] \in Digits /\ s[n + 3] \in Digits
        /\ s[n + 4] = "-"
        /\ s[n + 5] \in Digits

\* the entry of http_log for requests.get(url, timeout=15)
GetCall(url, response) == [call |-> "get", url |-> url, status |-> response.status]

\* the entry of http_log for time.sleep
SleepCall(tenths) == [call |-> "sleep", tenths |-> tenths]

\* requests.get raised, or raise_for_status raised on a 4xx / 5xx status
RaisesRequestException(response) == response.status # "200"

\* str(e) of the exception
Details(response) ==
    IF response.status = "timeout" THEN <<"t","i","m","e","d"," ","o","u","t">>
    ELSE IF response.status = "404" THEN <<"4","0","4"," ","E","r","r","o","r">>
    ELSE <<"5","0","3"," ","E","r","r","o","r">>

\* the row augment_with_api builds of result
ResultRow(name, r) ==
    IF r.status = S_Success
    THEN [original_name |-> name, source |-> S_PubChem_API,
          suggested_cas |-> r.cas_number, suggested_name |-> r.iupac_name,
          pubchem_cid |-> r.cid, confidence |-> S_High, notes |-> S_Direct_match]
    ELSE [original_name |-> name, source |-> S_PubChem_API,
          suggested_cas |-> None, suggested_name |-> None,
          pubchem_cid |-> r.cid, confidence |-> S_None,
          notes |-> r.status
                    \o (IF Truthy(r.details) THEN <<":", " ">> \o r.details
                        ELSE <<>>)]

\* a result dict; a key it lacks reads None through result.get
Result(status, cid, iupac_name, cas_number, details) ==
    [status |-> status, cid |-> cid, iupac_name |-> iupac_name,
     cas_number |-> cas_number, details |-> details]

NoResult == Result(<<>>, None, None, None, None)

\* [s for s in synonyms if re.match(...)]
RECURSIVE CasNumbers(_)
CasNumbers(synonyms) ==
    IF synonyms = <<>> THEN <<>>
    ELSE (IF IsCasShaped(Head(synonyms)) THEN <<Head(synonyms)>> ELSE <<>>)
         \o CasNumbers(Tail(synonyms))

\* a response: status "timeout" when requests.get raised, else the HTTP status;
\* body describes what response.json() gives for a 200
Response(status, body) == [status |-> status, body |-> body]

\* the ways an attempt that raised RequestException goes on
Failed(n, details) ==
    IF n < MAX_RETRIES - 1
    THEN [pc |-> "retry_sleep", result |-> NoResult]
    ELSE [pc |-> "row", result |-> Result(S_Error, None, None, None, details)]

Returns(r) == [pc |-> "row", result |-> r]

\* an exception query_pubchem_with_retry does not catch leaves augment_with_api
Crashes == [pc |-> "api_crashed", result |-> NoResult]

\* what follows the first requests.get of an attempt
NameOutcomes(response, n) ==
    LET body == response.body
    IN  IF RaisesRequestException(response) THEN {Failed(n, Details(response))}
        ELSE IF ~body.json
        \* response.json() raises requests' JSONDecodeError, a RequestException
        \* from requests 2.27 on and a plain ValueError before
        THEN {Failed(n, <<"j","s","o","n">>), Crashes}
        ELSE IF body.PropertyTable = "absent" THEN {Returns(Result(S_Not_Found, None, None, None, None))}
        ELSE IF body.PropertyTable = "no_Properties" THEN {Crashes}
        ELSE IF body.Properties = <<>> THEN {Returns(Result(S_Not_Found, None, None, None, None))}
        ELSE IF body.Properties[1].CID = Absent \/ body.Properties[1].IUPACName = Absent
        THEN {Crashes}
        ELSE {[pc |-> "cid_request",
               result |-> Result(<<>>, body.Properties[1].CID,
                                 body.Properties[1].IUPACName, None, None)]}

\* what follows the second requests.get of an attempt
SynonymOutcomes(response, n, found) ==
    LET body == response.body
        not_found == Result(S_CAS_Not_Found, found.cid, found.iupac_name, None, None)
    IN  IF RaisesRequestException(response) THEN {Failed(n, Details(response))}
        ELSE IF ~body.json THEN {Failed(n, <<"j","s","o","n">>), Crashes}
        ELSE IF body.InformationList = "absent" THEN {Returns(not_found)}
        ELSE IF body.InformationList = "no_Information" THEN {Crashes}
        ELSE IF body.Information = <<>> THEN {Returns(not_found)}
        ELSE IF ~body.Information[1].has_Synonym THEN {Crashes}
        ELSE IF CasNumbers(body.Information[1].Synonym) # <<>>
        THEN {Returns(Result(S_Success, found.cid, found.iupac_name,
                             CasNumbers(body.Information[1].Synonym)[1], None))}
        ELSE {Returns(not_found)}

-----------------------------------------------------------------------------
(* Bounded inputs of step4a *)

MaxOrphans == 2

OrphanNames == {<<"a"," ","b">>, <<"c">>}

OrphanLists == UNION {[1..n -> OrphanNames] : n \in 0..MaxOrphans}

NameBody(json, table, properties) ==
    [json |-> json, PropertyTable |-> table, Properties |-> properties]

Property(cid, iupac_name) == [CID |-> cid, IUPACName |-> iupac_name]

NameBodies ==
    {NameBody(FALSE, "absent", <<>>), NameBody(TRUE, "absent", <<>>),
     NameBody(TRUE, "no_Properties", <<>>), NameBody(TRUE, "present", <<>>),
     NameBody(TRUE, "present", <<Property(Absent, <<"i">>)>>),
     NameBody(TRUE, "present", <<Property(<<"7">>, Absent)>>),
     NameBody(TRUE, "present", <<Property(<<"7">>, <<"i">>)>>)}

NoBody == NameBody(FALSE, "absent", <<>>)

NameResponses ==
    {Response(status, NoBody) : status \in {"timeout", "404", "503"}}
    \cup {Response("200", body) : body \in NameBodies}

SynonymBody(json, list, information) ==
    [json |-> json, InformationList |-> list, Information |-> information]

Information(has_Synonym, synonyms) == [has_Synonym |-> has_Synonym, Synonym |-> synonyms]

S_Formalin == <<"F","o","r","m","a","l","i","n">>
S_50_00_0 == <<"5","0","-","0","0","-","0">>
S_64_17_5 == <<"6","4","-","1","7","-","5">>

SynonymBodies ==
    {SynonymBody(FALSE, "absent", <<>>), SynonymBody(TRUE, "absent", <<>>),
     SynonymBody(TRUE, "no_Information", <<>>), SynonymBody(TRUE, "present", <<>>),
     SynonymBody(TRUE, "present", <<Information(FALSE, <<>>)>>),
     SynonymBody(TRUE, "present", <<Information(TRUE, <<S_Formalin>>)>>),
     SynonymBody(TRUE, "present", <<Information(TRUE, <<S_Formalin, S_50_00_0, S_64_17_5>>)>>)}

SynonymResponses ==
    {Response(status, NoBody) : status \in {"timeout", "404", "503"}}
    \cup {Response("200", body) : body \in SynonymBodies}

-----------------------------------------------------------------------------
(* step4a as a state machine: one step per requests.get and per time.sleep *)

InitApi ==
    /\ pc = "loop"
    /\ NoFiles
    /\ AuditIdle
    /\ L3Idle
    /\ L1Idle
    /\ orphans \in OrphanLists
    /\ orphan_i = 0
    /\ attempt = 0
    /\ result = NoResult
    /\ results = <<>>
    /\ http_log = <<>>

\* for i, orphan in enumerate(orphans): result = query_pubchem_with_retry(name)
begin_lookup ==
    /\ pc = "loop"
    /\ orphan_i < Len(orphans)
    /\ orphan_i' = orphan_i + 1
    /\ attempt' = 0
    /\ result' = NoResult
    /\ pc' = "name_request"
    /\ UNCHANGED <<orphans, results, http_log>>
    /\ UNCHANGED <<identityVars, l2_data, master_rows, raw_tree, cleaned_tree,
                   recleaned_tree, stats, auditVars>>

\* response = requests.get(url, timeout=15) and what follows up to the next call
name_request ==
    /\ pc = "name_request"
    /\ \E response \in NameResponses :
        /\ http_log' = Append(http_log,
                GetCall(<<"name", name_encoded(orphans[orphan_i])>>, response))
        /\ \E next \in NameOutcomes(response, attempt) :
            pc' = next.pc /\ result' = next.result
    /\ UNCHANGED <<orphans, orphan_i, attempt, results>>
    /\ UNCHANGED <<identityVars, l2_data, master_rows, raw_tree, cleaned_tree,
                   recleaned_tree, stats, auditVars>>

\* cas_response = requests.get(cas_url, timeout=15) and what follows
cid_request ==
    /\ pc = "cid_request"
    /\ \E response \in SynonymResponses :
        /\ http_log' = Append(http_log, GetCall(<<"cid", result.cid>>, response))
        /\ \E next \in SynonymOutcomes(response, attempt, result) :
            pc' = next.pc /\ result' = next.result
    /\ UNCHANGED <<orphans, orphan_i, attempt, results>>
    /\ UNCHANGED <<identityVars, l2_data, master_rows, raw_tree, cleaned_tree,
                   recleaned_tree, stats, auditVars>>

\* time.sleep(RETRY_DELAY), then the next attempt
retry_sleep ==
    /\ pc = "retry_sleep"
    /\ http_log' = Append(http_log, SleepCall(RETRY_DELAY * 10))
    /\ attempt' = attempt + 1
    /\ pc' = "name_request"
    /\ UNCHANGED <<orphans, orphan_i, result, results>>
    /\ UNCHANGED <<identityVars, l2_data, master_rows, raw_tree, cleaned_tree,
                   recleaned_tree, stats, auditVars>>

\* results.append(row); time.sleep(0.3). http_log starts again with this sleep
append_row ==
    /\ pc = "row"
    /\ results' = Append(results, ResultRow(orphans[orphan_i], result))
    /\ http_log' = <<SleepCall(ROW_DELAY_TENTHS)>>
    /\ pc' = "loop"
    /\ UNCHANGED <<orphans, orphan_i, attempt, result>>
    /\ UNCHANGED <<identityVars, l2_data, master_rows, raw_tree, cleaned_tree,
                   recleaned_tree, stats, auditVars>>

\* df.to_csv(OUTPUT_FILE) once the loop is over
save_csv ==
    /\ pc = "loop"
    /\ orphan_i = Len(orphans)
    /\ pc' = "api_done"
    /\ UNCHANGED <<orphans, orphan_i, attempt, result, results, http_log>>
    /\ UNCHANGED <<identityVars, l2_data, master_rows, raw_tree, cleaned_tree,
                   recleaned_tree, stats, auditVars>>

NextApi ==
    \/ begin_lookup
    \/ name_request
    \/ cid_request
    \/ retry_sleep
    \/ append_row
    \/ save_csv

SpecApi == InitApi /\ [][NextApi]_vars

-----------------------------------------------------------------------------
(* Properties of the structured external lookup (SpecApi) *)

\* the requests made so far for the orphan being looked up
Gets == {k \in DOMAIN http_log : http_log[k].call = "get"}

\* C15: a non-2xx HTTP response to either request is terminal for the
\* compound: no further request is issued for the same compound name, and the
\* lookup returns a non-success result.
C15_Non2xxTerminal ==
    \A k \in Gets :
        http_log[k].status \in {"404", "503"} =>
            /\ \A later \in Gets : later <= k
            /\ pc = "row" => result.status # S_Success

\* C16: query_pubchem_with_retry returns after at most MAX_RETRIES attempts
\* whatever the lookup outcomes are, and augment_with_api emits exactly one row
\* per orphan, an unresolved row for a failed lookup, and goes on to the
\* remaining orphans.
C16_LookupBoundedNonFatal ==
    /\ attempt < MAX_RETRIES
    /\ Cardinality({k \in Gets : http_log[k].url[1] = "name"}) <= MAX_RETRIES
    /\ pc # "api_crashed"
    /\ pc = "api_done" =>
        /\ Len(results) = Len(orphans)
        /\ \A k \in DOMAIN orphans :
            /\ results[k].original_name = orphans[k]
            /\ results[k].notes # S_Direct_match => results[k].suggested_cas = None

\* C17: between any two successive HTTP requests there is a sleep, also between
\* the name search and the synonym request of one lookup.
C17_SleepBetweenRequests ==
    \A k \in Gets : (k + 1) \in DOMAIN http_log => http_log[k + 1].call = "sleep"

-----------------------------------------------------------------------------
(* process_l1_cleaning and AuditLogger of step1_L1_clean.py *)

\* str(snippet)[:100]
SNIPPET_LEN == 100

S_json == <<".","j","s","o","n">>
S_Compound == <<"C","o","m","p","o","u","n","d",":"," ">>
S_Ellipsis == <<".",".",".">>
S_Empty_Missing == <<"E","m","p","t","y","/","M","i","s","s","i","n","g"," ","M","S"," ","P","a","r","a","m","s">>
S_Dict == <<"D","i","c","t">>

\* filename.endswith(suffix)
EndsWith(s, suffix) ==
    Len(s) >= Len(suffix) /\ SubSeq(s, Len(s) - Len(suffix) + 1, Len(s)) = suffix

\* AuditLogger().stats
NewAuditStats ==
    [total_files |-> 0, total_input_records |-> 0, total_output_records |-> 0,
     dropped_records |-> <<>>, structure_fixes |-> <<>>, string_cleanups |-> 0]

\* rec.get(key, default)
Field(rec, key, default) == IF key \in DOMAIN rec.fields THEN rec.fields[key] ELSE default

\* not value, for a JSON value
Falsy(value) ==
    \/ value.t = "None"
    \/ value.t = "list" /\ value.items = <<>>
    \/ value.t = "str" /\ value.chars = <<>>
    \/ value.t = "dict" /\ DOMAIN value.fields = {}
    \/ value.t = "int" /\ value.n = 0

\* the test of line 120 with "ms_params is None" for "not ms_params"
NoTransitions_NoneOnly(ms_params) == ms_params.t = "None"

\* not ms_params or (isinstance(ms_params, list) and len(ms_params) == 0)
NoTransitions(ms_params) ==
    Falsy(ms_params) \/ (ms_params.t = "list" /\ Len(ms_params.items) = 0)

\* f"{compound_name}" of a str or None
Formatted(value) == IF value.t = "str" THEN value.chars ELSE S_None

\* the entry AuditLogger.log_dropped appends
DroppedEntry(filename, index, reason, snippet) ==
    [file |-> filename, index |-> index, reason |-> reason,
     snippet |-> SubSeq(snippet, 1, IF Len(snippet) < SNIPPET_LEN THEN Len(snippet)
                                    ELSE SNIPPET_LEN) \o S_Ellipsis]

\* auditor.log_dropped(filename, idx, "Empty/Missing MS Params", f"Compound: {compound_name}")
LogDropped(s, filename, idx, rec) ==
    [s EXCEPT !.dropped_records =
        Append(@, DroppedEntry(filename, idx, S_Empty_Missing,
                     S_Compound \o Formatted(Field(rec, "compound_english_name",
                                                   TStr(S_Unknown)))))]

\* auditor.log_structure_fix(filename, "Dict")
LogStructureFix(s, filename) ==
    [s EXCEPT !.structure_fixes = Append(@, [file |-> filename, original_type |-> S_Dict])]

\* cleaned_rec["_source_file"] = filename
WithSource(cleaned_rec, filename) ==
    TDict(("_source_file" :> TStr(filename)) @@ cleaned_rec.fields)

\* current_batch of lines 104-112
current_batch(raw) ==
    IF raw.t = "list" THEN raw
    ELSE IF raw.t = "dict"
         THEN IF "detections" \in DOMAIN raw.fields THEN raw.fields["detections"]
              ELSE TList(<<raw>>)
         ELSE TList(<<>>)

\* len(current_batch) raises TypeError
HasNoLen(batch) == batch.t \in {"None", "int"}

\* what enumerate(current_batch) yields for a list or a str
Elements(batch) ==
    IF batch.t = "list" THEN batch.items
    ELSE [i \in DOMAIN batch.chars |-> TStr(<<batch.chars[i]>>)]

\* the loop of lines 117-132 from position i on; rec.get raises AttributeError
\* on an element that is no dict, which ends the loop
RECURSIVE CleanBatch(_, _, _, _, _)
CleanBatch(filename, elements, i, records, s) ==
    IF i > Len(elements) THEN [all_records |-> records, stats |-> s, raised |-> FALSE]
    ELSE LET rec == elements[i]
         IN  IF rec.t # "dict" THEN [all_records |-> records, stats |-> s, raised |-> TRUE]
             ELSE IF NoTransitions(Field(rec, "mass_spec_params", TNone))
             THEN CleanBatch(filename, elements, i + 1, records,
                             LogDropped(s, filename, i - 1, rec))
             ELSE CleanBatch(filename, elements, i + 1,
                             Append(records, WithSource(clean_string_with_audit(rec), filename)),
                             AuditStats(s, rec))

\* the body of the try of lines 99-135 for one file
ProcessFile(file, records, s) ==
    IF ~file.decodable THEN [all_records |-> records, stats |-> s, raised |-> TRUE]
    ELSE LET fixed == IF file.raw.t = "dict" THEN LogStructureFix(s, file.name) ELSE s
             batch == current_batch(file.raw)
         IN  IF HasNoLen(batch) THEN [all_records |-> records, stats |-> fixed, raised |-> TRUE]
             ELSE CleanBatch(file.name, Elements(batch), 1, records,
                             [fixed EXCEPT !.total_input_records = @ + Len(Elements(batch))])

-----------------------------------------------------------------------------
(* Bounded inputs of process_l1_cleaning *)

MaxFiles == 2

\* a name longer than the snippet
LongName == [i \in 1..95 |-> "x"]

Transitions == TList(<<TDict("precursor_mz" :> TInt(5))>>)

Detection(name, ms_params) ==
    TDict(("compound_english_name" :> name) @@ ("mass_spec_params" :> ms_params))

R_kept == Detection(TStr(NameAb), Transitions)
R_dirty == Detection(TStr(<<" ","e","\n">>), Transitions)
R_text == Detection(TStr(NameAb), TStr(<<"x">>))
R_missing == TDict("compound_english_name" :> TStr(NameAb))
R_null == Detection(TNone, TNone)
R_empty == TDict("mass_spec_params" :> TList(<<>>))
R_long == Detection(TStr(LongName), TStr(<<>>))
R_zero == Detection(TStr(NameAb), TInt(0))

\* an element of a batch that is no JSON object
Junk == TStr(<<"j">>)

AuditRecords == {R_kept, R_dirty, R_text, R_missing, R_null, R_empty, R_long, R_zero}

Batches ==
    {<<>>, <<Junk>>} \cup {<<r>> : r \in AuditRecords}
    \cup {<<R_kept, R_missing>>, <<R_missing, R_dirty>>, <<R_empty, R_null>>,
          <<R_kept, R_kept>>, <<R_missing, R_missing>>, <<Junk, R_kept>>,
          <<R_kept, Junk, R_kept>>, <<R_missing, Junk, R_missing>>}

RawTrees ==
    {TList(b) : b \in Batches}
    \cup {TDict("detections" :> d) :
            d \in {TList(<<R_kept, R_missing>>), TList(<<>>), TNone, TStr(<<"a","b">>)}}
    \cup {R_kept, R_missing}
    \cup {TStr(<<"x">>), TNone}

FileDigits == <<"1","2","3","4","5","6","7","8","9">>

\* the k-th name os.listdir returns
FileName(k, suffix) == <<"f", FileDigits[k]>> \o suffix

File(k, suffix, decodable, raw) ==
    [name |-> FileName(k, suffix), decodable |-> decodable, raw |-> raw]

FilesAt(k) ==
    {File(k, S_json, TRUE, raw) : raw \in RawTrees}
    \cup {File(k, S_json, FALSE, TNone), File(k, <<".","t","x","t">>, TRUE, TList(<<R_kept>>))}

Folders ==
    UNION {{f \in [1..n -> UNION {FilesAt(k) : k \in 1..n}] : \A k \in 1..n : f[k] \in FilesAt(k)} :
           n \in 0..MaxFiles}

-----------------------------------------------------------------------------
(* process_l1_cleaning as a state machine: one step per file of the folder *)

InitAudit ==
    /\ pc = "folder"
    /\ NoFiles
    /\ L3Idle
    /\ ApiIdle
    /\ raw_tree = <<>>
    /\ cleaned_tree = <<>>
    /\ recleaned_tree = <<>>
    /\ stats = NewAuditStats
    /\ input_folder \in Folders
    /\ file_i = 0
    /\ all_records = <<>>

\* if not filename.endswith(".json"): continue
skip_file ==
    /\ pc = "folder"
    /\ file_i < Len(input_folder)
    /\ ~EndsWith(input_folder[file_i + 1].name, S_json)
    /\ file_i' = file_i + 1
    /\ UNCHANGED <<pc, input_folder, all_records, stats>>
    /\ UNCHANGED <<identityVars, l2_data, master_rows, raw_tree, cleaned_tree,
                   recleaned_tree, apiVars>>

\* one iteration of the loop of line 93, the except of line 134 included
process_file ==
    /\ pc = "folder"
    /\ file_i < Len(input_folder)
    /\ EndsWith(input_folder[file_i + 1].name, S_json)
    /\ \E out \in {ProcessFile(input_folder[file_i + 1], all_records,
                                [stats EXCEPT !.total_files = @ + 1])} :
        /\ all_records' = out.all_records
        /\ stats' = out.stats
    /\ file_i' = file_i + 1
    /\ UNCHANGED <<pc, input_folder>>
    /\ UNCHANGED <<identityVars, l2_data, master_rows, raw_tree, cleaned_tree,
                   recleaned_tree, apiVars>>

\* lines 137-144: total_output_records, json.dump, auditor.save_report
save_report ==
    /\ pc = "folder"
    /\ file_i = Len(input_folder)
    /\ stats' = [stats EXCEPT !.total_output_records = Len(all_records)]
    /\ pc' = "l1_saved"
    /\ UNCHANGED <<input_folder, file_i, all_records>>
    /\ UNCHANGED <<identityVars, l2_data, master_rows, raw_tree, cleaned_tree,
                   recleaned_tree, apiVars>>

NextAudit == skip_file \/ process_file \/ save_report

SpecAudit == InitAudit /\ [][NextAudit]_vars

-----------------------------------------------------------------------------
(* Properties of the detection Normalizer's run (SpecAudit) *)

\* the file is a .json file that json.load reads
Readable(file) == EndsWith(file.name, S_json) /\ file.decodable

\* the elements of the batch of a file, none when the batch cannot be counted
BatchOf(file) ==
    IF Readable(file) /\ ~HasNoLen(current_batch(file.raw))
    THEN Elements(current_batch(file.raw)) ELSE <<>>

\* the records of a file: the positions of its batch that hold a JSON object
RecordsOf(file) == {i \in DOMAIN BatchOf(file) : BatchOf(file)[i].t = "dict"}

\* mass_spec_params is missing, null or empty
MissingNullOrEmpty(rec) ==
    \/ "mass_spec_params" \notin DOMAIN rec.fields
    \/ rec.fields["mass_spec_params"] \in {TNone, TList(<<>>), TStr(<<>>), TDict(<<>>)}

\* mass_spec_params is missing or a value Python takes for false
MissingOrFalsy(rec) ==
    MissingNullOrEmpty(rec) \/ rec.fields["mass_spec_params"] = TInt(0)

\* no element before position i of the batch is anything but a JSON object
Reached(file, i) == \A j \in 1..(i - 1) : BatchOf(file)[j].t = "dict"

\* the output records that carry the name of the file
FromFile(file) ==
    {j \in DOMAIN all_records : all_records[j].fields["_source_file"] = TStr(file.name)}

\* the audit entries for position i of the batch of the file
EntriesOf(file, i) ==
    {j \in DOMAIN stats.dropped_records :
        /\ stats.dropped_records[j].file = file.name
        /\ stats.dropped_records[j].index = i - 1}

\* the snippet of a dropped record: at most SNIPPET_LEN characters of the text
\* that names the compound, and an ellipsis
SnippetOf(rec) ==
    LET name == IF "compound_english_name" \in DOMAIN rec.fields
                THEN rec.fields["compound_english_name"] ELSE TStr(S_Unknown)
        text == S_Compound \o (IF name = TNone THEN S_None ELSE name.chars)
    IN  [i \in 1..(IF Len(text) < SNIPPET_LEN THEN Len(text) ELSE SNIPPET_LEN) |-> text[i]]
        \o S_Ellipsis

\* the record at position i is excluded and has its one audit entry
DroppedAndAudited(file, i) ==
    /\ Cardinality(EntriesOf(file, i)) = 1
    /\ \A j \in EntriesOf(file, i) :
        /\ stats.dropped_records[j].reason = S_Empty_Missing
        /\ stats.dropped_records[j].snippet = SnippetOf(BatchOf(file)[i])

\* the record at position i is in the output, cleaned, and has no audit entry
Emitted(file, i) ==
    /\ EntriesOf(file, i) = {}
    /\ \E j \in FromFile(file) :
        all_records[j] = WithSource(clean_string_with_audit(BatchOf(file)[i]), file.name)

C29_RecordAccounting ==
    pc = "l1_saved" =>
        stats.total_input_records
            = stats.total_output_records + Len(stats.dropped_records)

\* C29 for the runs in which the loop reaches every element of every batch
AccountingWhenNothingRaises ==
    (/\ pc = "l1_saved"
     /\ \A k \in DOMAIN input_folder :
            \A i \in DOMAIN BatchOf(input_folder[k]) : BatchOf(input_folder[k])[i].t = "dict")
    => stats.total_input_records
            = stats.total_output_records + Len(stats.dropped_records)

-----------------------------------------------------------------------------
(* The frame of CompletionEngine (step2) and BackfillPropagator (step6),
   checked under SpecBackfill *)

IdentityFields == {"CAS_number", "compound_english_name"}

\* the output record has the keys of the input record, and the value of every
\* key but an identity field that held no value
SameButMissingIdentity(in_rec, out_rec) ==
    /\ DOMAIN out_rec = DOMAIN in_rec
    /\ \A k \in DOMAIN in_rec :
        (k \notin IdentityFields \/ Present(in_rec[k])) => out_rec[k] = in_rec[k]

\* the output list is the input list, record by record in the input's order,
\* up to identity fields that held no value
FrameKept(input, output) ==
    /\ Len(output) = Len(input)
    /\ \A i \in DOMAIN input : SameButMissingIdentity(input[i], output[i])

\* what step2 wrote against what it read, and what step6 wrote against what it read
OutputsFrameInputs ==
    /\ pc # "l1" => FrameKept(l1_data, detections)
    /\ pc \in {"final", "final_rerun"} => FrameKept(detections, updated_detections)
    /\ pc = "final_rerun" => FrameKept(updated_detections, rerun_detections)

\* a step of the pipeline leaves the record lists step2 and step6 have read as
\* they were
InputsNotMutated ==
    pc # "l1" =>
        /\ l1_data' = l1_data
        /\ detections' = detections
        /\ (pc = "final" => updated_detections' = updated_detections)

\* C30: step2 and step6 return a list of the length and in the order of the
\* list they read; an output record has the keys and values of its input record
\* except for a CAS_number or compound_english_name that held no value; and
\* the records that were read are the same after the step
C30_OnlyMissingIdentityFilled ==
    []OutputsFrameInputs /\ [][InputsNotMutated]_vars

\* step2 has filled a name in one record and step6 an identity field in another,
\* each record keeping its other identity field and its payload, next to a
\* record both steps returned as read
C30_Witness ==
    /\ pc = "final"
    /\ \E i, j, k \in DOMAIN l1_data :
        /\ detections[i].compound_english_name # l1_data[i].compound_english_name
        /\ Present(l1_data[i].CAS_number)
        /\ detections[i].CAS_number = l1_data[i].CAS_number
        /\ detections[i].mass_spec_params = l1_data[i].mass_spec_params
        /\ updated_detections[j] # detections[j]
        /\ \E f \in IdentityFields :
            Present(detections[j][f]) /\ updated_detections[j][f] = detections[j][f]
        /\ updated_detections[j]._source_file = l1_data[j]._source_file
        /\ i # j /\ j # k /\ i # k
        /\ updated_detections[k] = l1_data[k]
        /\ Present(l1_data[k].CAS_number)
    /\ FrameKept(l1_data, detections)
    /\ FrameKept(detections, updated_detections)

====
